---- MODULE Spec2Model ----
(***************************************************************************)
(* Model of the repository content acquisition pipeline of                 *)
(* src/server/routes.ts: the POST /api/process-repository handler,        *)
(* getRepositoryContent, getRepositoryFileStructure, getFileContent and    *)
(* isBinaryFile, with the log store of src/server/storage.ts.              *)
(*                                                                         *)
(* One request is followed from its arrival to its response.  Every        *)
(* action is one awaited step of the code: the arrival of the answer to    *)
(* one network request (or of one log write), followed by all the          *)
(* synchronous code that runs up to the next await.  The answers of the    *)
(* network and of the log store are the model's nondeterministic inputs.   *)
(*                                                                         *)
(* Text is a sequence of tokens.  A path is a sequence of one-character    *)
(* strings.  Raw file content is a sequence of the characters "x" and      *)
(* "nl" (a newline).                                                       *)
(***************************************************************************)
EXTENDS Integers, Sequences, FiniteSets, TLC

(***************************************************************************)
(* Bounds of the model.                                                    *)
(***************************************************************************)
\* longest tree listing the tree endpoint answers with
MaxTreeLen == 2
\* longest raw file content, in characters
MaxContentLen == 3
\* most links on one directory page
MaxLinks == 2
\* how many entries of commonFiles are probed
MaxCommon == 2
\* the last millisecond Date.now() reaches
MaxClock == 1
\* most files in the cloned repository
MaxEntries == 2
\* most calls of the log store by concurrent requests
MaxCalls == 4
\* longest file name isBinaryFile is applied to on its own
MaxPathLen == 4
\* most submissions of the form of the Home page
MaxSubmissions == 3

(***************************************************************************)
(* Program constants, scaled down so that their cases happen within the    *)
(* bounds (the source values are 2000, 100 and 5).                         *)
(***************************************************************************)
maxLines == 2
maxFiles == 2
maxDepth == 1

None == [none |-> TRUE]

(***************************************************************************)
(* Paths.                                                                  *)
(***************************************************************************)
README == <<"R", "E", "A", "D", "M", "E", ".", "m", "d">>
PACKAGE == <<"p", "a", "c", "k", "a", "g", "e", ".", "j", "s", "o", "n">>
LICENSE == <<"L", "I", "C", "E", "N", "S", "E">>
LOGO == <<"l", "o", "g", "o", ".", "P", "N", "G">>
SRC == <<"s", "r", "c">>
LIB == <<"l", "i", "b">>
ROOT == <<>>

\* String.prototype.toLowerCase on one character
LowerChar(c) ==
  CASE c = "P" -> "p" [] c = "N" -> "n" [] c = "G" -> "g" [] c = "R" -> "r"
    [] c = "E" -> "e" [] c = "A" -> "a" [] c = "D" -> "d" [] c = "M" -> "m"
    [] c = "L" -> "l" [] c = "I" -> "i" [] c = "C" -> "c" [] c = "S" -> "s"
    [] OTHER -> c

toLowerCase(s) == [i \in 1..Len(s) |-> LowerChar(s[i])]

\* String.prototype.indexOf('.'), 0-based, -1 when there is none
indexOf(s, c) ==
  IF \E i \in 1..Len(s) : s[i] = c
  THEN (CHOOSE i \in 1..Len(s) : s[i] = c /\ \A j \in 1..(i-1) : s[j] # c) - 1
  ELSE -1

\* String.prototype.lastIndexOf('.'), 0-based, -1 when there is none
lastIndexOf(s, c) ==
  IF \E i \in 1..Len(s) : s[i] = c
  THEN (CHOOSE i \in 1..Len(s) : s[i] = c /\ \A j \in (i+1)..Len(s) : s[j] # c) - 1
  ELSE -1

\* String.prototype.substring(start): a negative start counts as 0
substring(s, start) ==
  LET from == IF start < 0 THEN 0 ELSE start
  IN SubSeq(s, from + 1, Len(s))

binaryExtensions ==
  { <<".", "p", "n", "g">>, <<".", "j", "p", "g">>, <<".", "j", "p", "e", "g">>,
    <<".", "g", "i", "f">>, <<".", "b", "m", "p">>, <<".", "i", "c", "o">>,
    <<".", "w", "e", "b", "p">>,
    <<".", "p", "d", "f">>, <<".", "d", "o", "c">>, <<".", "d", "o", "c", "x">>,
    <<".", "p", "p", "t">>, <<".", "p", "p", "t", "x">>, <<".", "x", "l", "s">>,
    <<".", "x", "l", "s", "x">>,
    <<".", "z", "i", "p">>, <<".", "r", "a", "r">>, <<".", "t", "a", "r">>,
    <<".", "g", "z">>, <<".", "7", "z">>,
    <<".", "m", "p", "3">>, <<".", "m", "p", "4">>, <<".", "w", "a", "v">>,
    <<".", "a", "v", "i">>, <<".", "m", "o", "v">>, <<".", "f", "l", "v">>,
    <<".", "e", "x", "e">>, <<".", "d", "l", "l">>, <<".", "s", "o">>,
    <<".", "d", "y", "l", "i", "b">>,
    <<".", "b", "i", "n">>, <<".", "d", "a", "t">> }

\* isBinaryFile without the lower-casing of the extension
isBinaryFileCaseSensitive(filename) ==
  substring(filename, lastIndexOf(filename, ".")) \in binaryExtensions

isBinaryFile(filename) ==
  LET ext == toLowerCase(substring(filename, lastIndexOf(filename, ".")))
  IN ext \in binaryExtensions

(***************************************************************************)
(* Text: tokens and the operations of the code on strings.                 *)
(***************************************************************************)
Tok(t) == [t |-> t, p |-> <<>>, a |-> 0, b |-> 0]
NL == Tok("nl")
X == Tok("x")
Header(path) == [t |-> "hdr", p |-> path, a |-> 0, b |-> 0]
TruncNotice(shown, total) == [t |-> "truncated", p |-> <<>>, a |-> shown, b |-> total]

RECURSIVE SeqsUpTo(_, _)
SeqsUpTo(S, n) ==
  IF n = 0 THEN {<<>>}
  ELSE LET shorter == SeqsUpTo(S, n - 1)
       IN shorter \cup {Append(s, x) : s \in {q \in shorter : Len(q) = n - 1}, x \in S}

\* content.split('\n'): the pieces between the newlines
RECURSIVE split(_)
split(content) ==
  IF \A i \in 1..Len(content) : content[i] # NL THEN <<content>>
  ELSE LET k == CHOOSE i \in 1..Len(content) :
                  content[i] = NL /\ \A j \in 1..(i-1) : content[j] # NL
       IN <<SubSeq(content, 1, k - 1)>> \o split(SubSeq(content, k + 1, Len(content)))

\* lines.join('\n')
RECURSIVE join(_)
join(lines) ==
  IF Len(lines) = 0 THEN <<>>
  ELSE IF Len(lines) = 1 THEN lines[1]
  ELSE lines[1] \o <<NL>> \o join(Tail(lines))

\* lines.slice(0, n)
slice(s, n) == SubSeq(s, 1, IF n < Len(s) THEN n ELSE Len(s))

\* [...new Set(fileTree)]: first occurrences, in order
RECURSIVE Dedup(_)
Dedup(s) ==
  IF s = <<>> THEN <<>>
  ELSE LET front == Dedup(SubSeq(s, 1, Len(s) - 1))
           last == s[Len(s)]
       IN IF \E i \in 1..Len(front) : front[i] = last THEN front ELSE Append(front, last)

Includes(s, x) == \E i \in 1..Len(s) : s[i] = x

(***************************************************************************)
(* Request URLs (req.body.url) and gitHubUrlSchema.                       *)
(***************************************************************************)
NoUrl == [given |-> FALSE, text |-> "", isUrl |-> FALSE, hostname |-> "", segments |-> <<>>]
EmptyUrl == [given |-> TRUE, text |-> "", isUrl |-> FALSE, hostname |-> "", segments |-> <<>>]
GarbageUrl == [given |-> TRUE, text |-> "not a url", isUrl |-> FALSE, hostname |-> "", segments |-> <<>>]
OtherHostUrl ==
  [given |-> TRUE, text |-> "https://gitlab.com/acme/widgets", isUrl |-> TRUE,
   hostname |-> "gitlab.com", segments |-> <<"acme", "widgets">>]
OwnerOnlyUrl ==
  [given |-> TRUE, text |-> "https://github.com/acme", isUrl |-> TRUE,
   hostname |-> "github.com", segments |-> <<"acme">>]
RepoUrl ==
  [given |-> TRUE, text |-> "https://github.com/acme/widgets", isUrl |-> TRUE,
   hostname |-> "github.com", segments |-> <<"acme", "widgets">>]

\* pathname.split('/').filter(Boolean): the empty parts are dropped
RECURSIVE filterBoolean(_)
filterBoolean(parts) ==
  IF parts = <<>> THEN <<>>
  ELSE IF Head(parts) = "" THEN filterBoolean(Tail(parts))
  ELSE <<Head(parts)>> \o filterBoolean(Tail(parts))

DoubleSlashUrl ==
  [given |-> TRUE, text |-> "https://github.com//widgets/", isUrl |-> TRUE,
   hostname |-> "github.com", segments |-> filterBoolean(<<"", "", "widgets", "">>)]

Urls == {NoUrl, EmptyUrl, GarbageUrl, OtherHostUrl, OwnerOnlyUrl, DoubleSlashUrl, RepoUrl}

\* urlParts[0] and urlParts[1]: "" where the array has no such element
owner(url) == IF Len(url.segments) >= 1 THEN url.segments[1] ELSE ""
repo(url) == IF Len(url.segments) >= 2 THEN url.segments[2] ELSE ""

\* gitHubUrlSchema without the test of the hostname
gitHubUrlSchemaAnyHost(url) ==
  /\ url.given
  /\ url.isUrl
  /\ Len(url.segments) >= 2

\* z.string().url().refine(hostname === 'github.com' && segments.length >= 2)
gitHubUrlSchema(url) ==
  /\ url.given
  /\ url.isUrl
  /\ url.hostname = "github.com"
  /\ Len(url.segments) >= 2

\* the truthiness of req.body.url
Truthy(url) == url.given /\ url.text # ""

ZodMessage(url) ==
  IF ~url.given THEN "Required"
  ELSE IF ~url.isUrl THEN "Invalid url"
  ELSE "Invalid GitHub repository URL. Format should be: https://github.com/username/repository"

(***************************************************************************)
(* The state.                                                              *)
(***************************************************************************)
VARIABLES
  pc,                 \* where the request is: the await it is suspended at
  req,                \* req.body.url of the request
  response,           \* what the handler answered: [status, body]
  logs,               \* MemStorage.logs, in insertion order
  currentId,          \* MemStorage.currentId
  logCalls,           \* the calls of storage.logRepositoryProcessing so far
  result,             \* what getRepositoryContent returned
  defaultBranch,      \* getRepositoryContent's defaultBranch
  landing,            \* the answer to getRepositoryContent's landing-page request
  probed,             \* the branches determineDefaultBranch probed, with the answers
  resolutions,        \* how many times a determineDefaultBranch ran to its end
  probeIdx,           \* the index of the probe (branch or common file) in flight
  treeBranch,         \* the branch the tree endpoint was asked for
  treeHeaders,        \* the headers of the request to the tree endpoint: [name, value]
  strategyLog,        \* the discovery strategies started: [name, found, raised]
  allFiles,           \* getRepositoryFileStructure's allFiles
  scrapeBranch,       \* getRepositoryFileStructure's defaultBranch
  walkStack,          \* processDirectory's suspended loops: [links, depth]
  walkReq,            \* the directory page request in flight: [path, depth]
  visitedDirectories, \* processDirectory's visited set
  walkLog,            \* the directory page requests of this discovery: [path, depth, nth, failed, back]
  fileTree,           \* the list getRepositoryFileStructure returned
  uniqueFiles,        \* the deduplicated list getRepositoryContent loops over
  idx,                \* the index in uniqueFiles of the file being fetched
  allContent,         \* getRepositoryContent's allContent
  fileCount,          \* getRepositoryContent's fileCount
  lineCount,          \* getRepositoryContent's lineCount
  fetchBranches,      \* getFileContent's branches still to try, the head in flight
  fetchLog,           \* the file content requests issued: [path, branch]
  fileResults         \* what getFileContent did: [path, failed, threw, value, text, data]

\* api/process-repository.ts: the invocations of extractRepository
VARIABLES
  now,                \* Date.now(), in milliseconds
  repository,         \* the files of the repository that is cloned
  disk,               \* os.tmpdir(): per directory name None or [owner, cloned]
  accesses,           \* the directory accesses made: [by, owner]
  cpc,                \* per invocation: the await it is suspended at
  tempDir,            \* per invocation: extractRepository's tempDir
  extractedContent,   \* per invocation: extractRepository's extractedContent
  entries,            \* per invocation: the listing processDir loops over
  cidx,               \* per invocation: the index in entries of the file in hand
  acc,                \* per invocation: processRepository's result, processedFiles, totalLines
  processed,          \* per invocation: what processRepository returned
  caught,             \* per invocation: the error the catch block holds
  removed,            \* per invocation: the answers to its fs.remove calls
  settled             \* per invocation: what extractRepository returned or threw

invocationVars == <<cpc, tempDir, extractedContent, entries, cidx, acc, processed, caught, removed, settled>>
cloneVars == <<now, repository, disk, accesses, invocationVars>>

\* getRepositoryContent called a second time for the same repository
VARIABLES
  world,              \* the answers the repository gave: <<request, answer>>
  thrownAt,           \* the requests whose answer made getRepositoryFileStructure throw
  first,              \* what the first call returned
  run                 \* which call is running: 1 or 2

repeatVars == <<world, thrownAt, first, run>>

\* a function of the program applied on its own
VARIABLES
  argument,           \* the argument of the call
  returned            \* <<>> before the call returns, then <<the value returned>>

pureVars == <<argument, returned>>

\* the log store called by several requests
VARIABLES
  spc,                \* per caller: idle, or awaiting the promise of its call
  handed              \* the RepositoryLog objects the calls returned, in call order

storeVars == <<spc, handed>>

\* the form of the client (RepoForm.tsx)
VARIABLES
  token               \* the value of the form's token field, "" when left empty

\* the caller of the request
VARIABLES
  aborted             \* None, or what had been done when the caller closed the connection

\* the Home page of the client (utils/github.ts, lines 135-242)
VARIABLES
  home,               \* the React state: [steps, error, result, showProcessing, showOutput]
  mutation,           \* processMutation: [isPending, submitted], submitted the mutate calls so far
  timers              \* the setTimeout callbacks not yet run: [of, index], of the submission

homeVars == <<home, mutation, timers>>

\* the serverless entry point (api/index.ts)
VARIABLES
  initialized,        \* the module's flag of line 12
  registered,         \* how many times registerRoutes was called on app
  ipc,                \* per invocation of handler: where it is
  passed              \* the requests passed to app: [invocation, routes], routes the calls before

serverlessVars == <<initialized, registered, ipc, passed>>

\* what lies outside the server
outsideVars == <<token, aborted, homeVars, serverlessVars>>

handlerVars == <<req, response, logs, currentId>>
branchVars == <<defaultBranch, landing, probed>>
histVars == <<resolutions, treeBranch, treeHeaders, strategyLog>>
discVars == <<allFiles, scrapeBranch, walkStack, walkReq, visitedDirectories, walkLog, probeIdx>>
loopVars == <<fileTree, uniqueFiles, idx, allContent, fileCount, lineCount, fetchBranches, fetchLog, fileResults>>
\* the variables no step of a request changes
apartVars == <<pureVars, storeVars, outsideVars>>
asideVars == <<cloneVars, apartVars>>
vars == <<pc, logCalls, result, handlerVars, branchVars, histVars, discVars, loopVars, cloneVars, repeatVars, apartVars>>

Invocations == {1, 2}
\* tempDir before getTempDir was called
NoDir == -1
\* the requests that call the log store
Callers == {1, 2, 3}

\* utils/github.ts, lines 108-133: the status of the four steps
initialSteps == [id \in 1..4 |-> "pending"]

\* no request has arrived and extractRepository has not been called
Idle ==
  /\ world = {}
  /\ thrownAt = {}
  /\ first = None
  /\ run = 1
  /\ now = 0
  /\ disk = [d \in 0..MaxClock |-> None]
  /\ accesses = {}
  /\ cpc = [p \in Invocations |-> "idle"]
  /\ tempDir = [p \in Invocations |-> NoDir]
  /\ extractedContent = [p \in Invocations |-> <<>>]
  /\ entries = [p \in Invocations |-> <<>>]
  /\ cidx = [p \in Invocations |-> 0]
  /\ acc = [p \in Invocations |-> None]
  /\ processed = [p \in Invocations |-> None]
  /\ caught = [p \in Invocations |-> None]
  /\ removed = [p \in Invocations |-> <<>>]
  /\ settled = [p \in Invocations |-> None]
  /\ pc = "h_start"
  /\ req = NoUrl
  /\ response = None
  /\ logs = <<>>
  /\ currentId = 1
  /\ logCalls = <<>>
  /\ result = None
  /\ defaultBranch = ""
  /\ landing = ""
  /\ probed = <<>>
  /\ resolutions = 0
  /\ probeIdx = 0
  /\ allFiles = <<>>
  /\ scrapeBranch = "main"
  /\ treeBranch = ""
  /\ treeHeaders = {}
  /\ walkStack = <<>>
  /\ walkReq = None
  /\ visitedDirectories = {}
  /\ walkLog = {}
  /\ strategyLog = <<>>
  /\ fileTree = <<>>
  /\ uniqueFiles = <<>>
  /\ idx = 0
  /\ allContent = <<>>
  /\ fileCount = 0
  /\ lineCount = 0
  /\ fetchBranches = <<>>
  /\ fetchLog = <<>>
  /\ fileResults = <<>>
  /\ returned = <<>>
  /\ spc = [c \in Callers |-> "idle"]
  /\ handed = <<>>
  /\ aborted = None
  /\ home = [steps |-> initialSteps, error |-> "null", result |-> None,
             showProcessing |-> FALSE, showOutput |-> FALSE]
  /\ mutation = [isPending |-> FALSE, submitted |-> 0]
  /\ timers = {}
  /\ initialized = FALSE
  /\ registered = 0
  /\ ipc = [c \in Callers |-> "idle"]
  /\ passed = {}

Init == Idle /\ repository = <<>> /\ argument = <<>> /\ token = ""

(***************************************************************************)
(* getFileContent.                                                         *)
(***************************************************************************)
\* raw contents: every line is empty or the one character x
Contents ==
  {c \in SeqsUpTo({X, NL}, MaxContentLen) : \A i \in 1..(Len(c) - 1) : ~(c[i] = X /\ c[i + 1] = X)}

\* the answers to a GET of a raw file: a 200 with text, a 200 whose data is
\* no string, another status below 500, or an exception (network error,
\* timeout, status of 500 and above)
FetchOutcomes ==
  {[kind |-> "ok", data |-> c] : c \in Contents}
    \cup {[kind |-> k, data |-> <<>>] : k \in {"nonstring", "status", "error"}}

branchesToTry(branch) ==
  IF branch # "" THEN <<branch>> ELSE <<"main", "master", "develop", "development">>

BinaryBlock(path) ==
  [content |-> <<Header(path), NL, Tok("[Binary file - content not displayed]"), NL, NL>>,
   lineCount |-> 1]

UnavailableBlock(path) ==
  [content |-> <<Header(path), NL, Tok("[File content could not be retrieved]"), NL, NL>>,
   lineCount |-> 1]

\* FormatFile with the lines shown for lineCount
FormatFileCountingShown(path, content) ==
  LET lines == split(content)
      truncated == Len(lines) > maxLines
      displayContent == IF truncated THEN join(slice(lines, maxLines)) ELSE content
      notice == IF truncated THEN <<NL, TruncNotice(maxLines, Len(lines)), NL>> ELSE <<>>
  IN [content |-> <<Header(path), NL>> \o displayContent \o <<NL>> \o notice \o <<NL>>,
      lineCount |-> Len(split(displayContent))]

\* FormatFile truncating from maxLines lines on
FormatFileTruncatingAtCap(path, content) ==
  LET lines == split(content)
      truncated == Len(lines) >= maxLines
      displayContent == IF truncated THEN join(slice(lines, maxLines)) ELSE content
      notice == IF truncated THEN <<NL, TruncNotice(maxLines, Len(lines)), NL>> ELSE <<>>
  IN [content |-> <<Header(path), NL>> \o displayContent \o <<NL>> \o notice \o <<NL>>,
      lineCount |-> Len(lines)]

\* the formatting of a text answer, with the truncation of long files
FormatFile(path, content) ==
  LET lines == split(content)
      truncated == Len(lines) > maxLines
      displayContent == IF truncated THEN join(slice(lines, maxLines)) ELSE content
      notice == IF truncated THEN <<NL, TruncNotice(maxLines, Len(lines)), NL>> ELSE <<>>
  IN [content |-> <<Header(path), NL>> \o displayContent \o <<NL>> \o notice \o <<NL>>,
      lineCount |-> Len(lines)]

\* FileAnswer with a failure on the last branch answered by empty content
FileAnswerEmptyOnFailure(path, branches, outcome) ==
  IF outcome.kind = "ok"
    THEN [returns |-> TRUE, throws |-> FALSE, value |-> FormatFile(path, outcome.data)]
  ELSE IF outcome.kind = "nonstring"
    THEN [returns |-> TRUE, throws |-> FALSE, value |-> BinaryBlock(path)]
  ELSE IF Len(branches) > 1
    THEN [returns |-> FALSE, throws |-> FALSE, value |-> None]
  ELSE [returns |-> TRUE, throws |-> FALSE, value |-> [content |-> <<>>, lineCount |-> 0]]

\* FileAnswer with a failure on the last branch thrown to the caller
FileAnswerThrowing(path, branches, outcome) ==
  IF outcome.kind = "ok"
    THEN [returns |-> TRUE, throws |-> FALSE, value |-> FormatFile(path, outcome.data)]
  ELSE IF outcome.kind = "nonstring"
    THEN [returns |-> TRUE, throws |-> FALSE, value |-> BinaryBlock(path)]
  ELSE IF Len(branches) > 1
    THEN [returns |-> FALSE, throws |-> FALSE, value |-> None]
  ELSE [returns |-> TRUE, throws |-> TRUE, value |-> None]

\* what getFileContent does with the answer for the branch in flight: it
\* returns a block, or goes on to the next branch; it throws nothing
FileAnswer(path, branches, outcome) ==
  IF outcome.kind = "ok"
    THEN [returns |-> TRUE, throws |-> FALSE, value |-> FormatFile(path, outcome.data)]
  ELSE IF outcome.kind = "nonstring"
    THEN [returns |-> TRUE, throws |-> FALSE, value |-> BinaryBlock(path)]
  ELSE IF Len(branches) > 1
    THEN [returns |-> FALSE, throws |-> FALSE, value |-> None]
  ELSE [returns |-> TRUE, throws |-> FALSE, value |-> UnavailableBlock(path)]

(***************************************************************************)
(* getRepositoryContent: the loop over the files and the result.           *)
(***************************************************************************)
FallbackContent ==
  <<Tok("# Repository: owner/repo"), NL, NL,
    Tok("This repository couldn't be processed completely."), NL, NL>>

ErrorContent(message) ==
  <<Tok("# Repository: owner/repo"), NL, NL,
    Tok("An error occurred while fetching this repository: "), Tok(message), NL, NL, Tok("Please try again later or try a different repository."), NL, NL>>

\* the first index from i on whose file is not skipped as binary
RECURSIVE NextIdx(_, _)
NextIdx(files, i) ==
  IF i > Len(files) THEN i
  ELSE IF isBinaryFile(files[i]) THEN NextIdx(files, i + 1)
  ELSE i

\* the result once the loop is over, with the fallback message
Aggregate(content, fc, lc) ==
  IF content = <<>>
  THEN [content |-> FallbackContent, fileCount |-> 1, lineCount |-> 3]
  ELSE [content |-> content, fileCount |-> fc, lineCount |-> lc]

\* SuccessLog with the counts of the failure entry
SuccessLogWithoutCounts(url, res) ==
  [repositoryUrl |-> url.text, fileCount |-> 0, lineCount |-> 0,
   success |-> TRUE, errorMessage |-> "null"]

\* the handler's success log entry for a result
SuccessLog(url, res) ==
  [repositoryUrl |-> url.text, fileCount |-> res.fileCount, lineCount |-> res.lineCount,
   success |-> TRUE, errorMessage |-> "null"]

FailureLog(url, message) ==
  [repositoryUrl |-> url.text, fileCount |-> 0, lineCount |-> 0,
   success |-> FALSE, errorMessage |-> message]

\* getRepositoryContent returns res to the handler, which calls the log store
ReturnResult(res) ==
  /\ result' = res
  /\ logCalls' = Append(logCalls, SuccessLog(req, res))
  /\ pc' = "h_log"

\* the loop of getRepositoryContent from index i on, up to the next file
\* request or to the end of the function
ContinueLoop(files, i, content, fc, lc) ==
  LET j == NextIdx(files, i)
  IN /\ uniqueFiles' = files
     /\ idx' = j
     /\ IF j > Len(files)
        THEN LET res == Aggregate(content, fc, lc)
             IN /\ allContent' = res.content
                /\ fileCount' = res.fileCount
                /\ lineCount' = res.lineCount
                /\ fetchBranches' = <<>>
                /\ fetchLog' = fetchLog
                /\ ReturnResult(res)
        ELSE /\ allContent' = content
             /\ fileCount' = fc
             /\ lineCount' = lc
             /\ fetchBranches' = branchesToTry(defaultBranch)
             /\ fetchLog' = Append(fetchLog, [path |-> files[j], branch |-> Head(branchesToTry(defaultBranch))])
             /\ result' = result
             /\ logCalls' = logCalls
             /\ pc' = "rc_fetch"

\* DiscardStructureLocals with visitedDirectories kept from one call to the next
KeepVisitedDirectories ==
  /\ allFiles' = <<>>
  /\ scrapeBranch' = "main"
  /\ walkStack' = <<>>
  /\ walkReq' = None
  /\ visitedDirectories' = visitedDirectories
  /\ walkLog' = {}
  /\ probeIdx' = 0

\* getRepositoryFileStructure is left: its local variables are gone
DiscardStructureLocals ==
  /\ allFiles' = <<>>
  /\ scrapeBranch' = "main"
  /\ walkStack' = <<>>
  /\ walkReq' = None
  /\ visitedDirectories' = {}
  /\ walkLog' = {}
  /\ probeIdx' = 0

\* ReturnFileTree with the loop over the list as it was returned
ReturnFileTreeAsListed(files) ==
  /\ DiscardStructureLocals
  /\ fileTree' = files
  /\ fileResults' = <<>>
  /\ ContinueLoop(files, 1, <<>>, 0, 0)

\* getRepositoryFileStructure returned files: deduplicate and loop
ReturnFileTree(files) ==
  /\ DiscardStructureLocals
  /\ fileTree' = files
  /\ fileResults' = <<>>
  /\ ContinueLoop(Dedup(files), 1, <<>>, 0, 0)

\* FileResponse with lineCount assigned where it is added to
FileResponseOverwritingLines(outcome) ==
  /\ pc = "rc_fetch"
  /\   LET path == uniqueFiles[idx]
           answer == FileAnswer(path, fetchBranches, outcome)
           failed == outcome.kind \in {"status", "error"}
           fileResult == answer.value
       IN IF answer.throws
          THEN /\ fileResults' = Append(fileResults, [path |-> path, failed |-> failed,
                                                     threw |-> TRUE, value |-> None,
                                                     text |-> outcome.kind = "ok",
                                                     data |-> outcome.data])
               /\ ContinueLoop(uniqueFiles, idx + 1, allContent, fileCount, lineCount)
          ELSE IF answer.returns
          THEN /\ fileResults' = Append(fileResults, [path |-> path, failed |-> failed,
                                                     threw |-> FALSE, value |-> fileResult,
                                                     text |-> outcome.kind = "ok",
                                                     data |-> outcome.data])
               /\ IF fileResult.content # <<>>
                  THEN ContinueLoop(uniqueFiles, idx + 1, allContent \o fileResult.content,
                                    fileCount + 1, fileResult.lineCount)
                  ELSE ContinueLoop(uniqueFiles, idx + 1, allContent, fileCount, lineCount)
          ELSE /\ fetchBranches' = Tail(fetchBranches)
               /\ fetchLog' = Append(fetchLog, [path |-> path, branch |-> fetchBranches[2]])
               /\ UNCHANGED <<pc, result, logCalls, uniqueFiles, idx, allContent, fileCount,
                              lineCount, fileResults>>
  /\ UNCHANGED <<fileTree, handlerVars, branchVars, histVars, discVars>>
  /\ UNCHANGED asideVars

\* FileResponse with each block put before the content gathered so far
FileResponsePrepending(outcome) ==
  /\ pc = "rc_fetch"
  /\   LET path == uniqueFiles[idx]
           answer == FileAnswer(path, fetchBranches, outcome)
           failed == outcome.kind \in {"status", "error"}
           fileResult == answer.value
       IN IF answer.throws
          THEN /\ fileResults' = Append(fileResults, [path |-> path, failed |-> failed,
                                                     threw |-> TRUE, value |-> None,
                                                     text |-> outcome.kind = "ok",
                                                     data |-> outcome.data])
               /\ ContinueLoop(uniqueFiles, idx + 1, allContent, fileCount, lineCount)
          ELSE IF answer.returns
          THEN /\ fileResults' = Append(fileResults, [path |-> path, failed |-> failed,
                                                     threw |-> FALSE, value |-> fileResult,
                                                     text |-> outcome.kind = "ok",
                                                     data |-> outcome.data])
               /\ IF fileResult.content # <<>>
                  THEN ContinueLoop(uniqueFiles, idx + 1, fileResult.content \o allContent,
                                    fileCount + 1, lineCount + fileResult.lineCount)
                  ELSE ContinueLoop(uniqueFiles, idx + 1, allContent, fileCount, lineCount)
          ELSE /\ fetchBranches' = Tail(fetchBranches)
               /\ fetchLog' = Append(fetchLog, [path |-> path, branch |-> fetchBranches[2]])
               /\ UNCHANGED <<pc, result, logCalls, uniqueFiles, idx, allContent, fileCount,
                              lineCount, fileResults>>
  /\ UNCHANGED <<fileTree, handlerVars, branchVars, histVars, discVars>>
  /\ UNCHANGED asideVars

\* the answer to the file request in flight (lines 153-173 with 452-525)
FileResponseWith(outcome) ==
  /\ pc = "rc_fetch"
  /\   LET path == uniqueFiles[idx]
           answer == FileAnswer(path, fetchBranches, outcome)
           failed == outcome.kind \in {"status", "error"}
           fileResult == answer.value
       IN IF answer.throws
          THEN /\ fileResults' = Append(fileResults, [path |-> path, failed |-> failed,
                                                     threw |-> TRUE, value |-> None,
                                                     text |-> outcome.kind = "ok",
                                                     data |-> outcome.data])
               /\ ContinueLoop(uniqueFiles, idx + 1, allContent, fileCount, lineCount)
          ELSE IF answer.returns
          THEN /\ fileResults' = Append(fileResults, [path |-> path, failed |-> failed,
                                                     threw |-> FALSE, value |-> fileResult,
                                                     text |-> outcome.kind = "ok",
                                                     data |-> outcome.data])
               /\ IF fileResult.content # <<>>
                  THEN ContinueLoop(uniqueFiles, idx + 1, allContent \o fileResult.content,
                                    fileCount + 1, lineCount + fileResult.lineCount)
                  ELSE ContinueLoop(uniqueFiles, idx + 1, allContent, fileCount, lineCount)
          ELSE /\ fetchBranches' = Tail(fetchBranches)
               /\ fetchLog' = Append(fetchLog, [path |-> path, branch |-> fetchBranches[2]])
               /\ UNCHANGED <<pc, result, logCalls, uniqueFiles, idx, allContent, fileCount,
                              lineCount, fileResults>>
  /\ UNCHANGED <<fileTree, handlerVars, branchVars, histVars, discVars>>
  /\ UNCHANGED asideVars

FileResponse ==
  /\ \E outcome \in FetchOutcomes : FileResponseWith(outcome)
  /\ UNCHANGED repeatVars

\* a discovery strategy is started
Invoke(log, name) ==
  Append(log, [name |-> name, found |-> -1, raised |-> FALSE, binary |-> 0])

\* the strategy started last returns a list that k listed paths were left out
\* of as binary
Skip(log, k) == [log EXCEPT ![Len(log)].binary = k]

\* the strategy started last is over, with n files found
Finish(log, n, raised) ==
  [log EXCEPT ![Len(log)] = [name |-> @.name, found |-> n, raised |-> raised,
                             binary |-> @.binary]]

\* CatchStructureError with getRepositoryFileStructure called again
RetryStructure(message) ==
  IF Len(strategyLog) < 4
  THEN /\ DiscardStructureLocals
       /\ strategyLog' = Invoke(strategyLog, "tree")
       /\ pc' = "fs_api"
       /\ UNCHANGED <<resolutions, treeBranch, treeHeaders, loopVars, result, logCalls>>
  ELSE /\ DiscardStructureLocals
       /\ ReturnResult([content |-> ErrorContent(message), fileCount |-> 1, lineCount |-> 5])
       /\ UNCHANGED <<histVars, loopVars>>

\* CatchStructureError with the exception thrown on to the handler
RethrowStructureError(message) ==
  /\ DiscardStructureLocals
  /\ result' = result
  /\ logCalls' = Append(logCalls, FailureLog(req, message))
  /\ pc' = "h_errlog"
  /\ UNCHANGED <<histVars, loopVars>>

\* the catch of getRepositoryContent (lines 188-197): an exception raised in
\* getRepositoryFileStructure becomes a result
CatchStructureError(message) ==
  /\ DiscardStructureLocals
  /\ ReturnResult([content |-> ErrorContent(message), fileCount |-> 1, lineCount |-> 5])
  /\ UNCHANGED <<histVars, loopVars>>

\* getRepositoryFileStructure throws (its catch of lines 445-448 rethrows any
\* exception raised in it)
StructureThrown ==
  /\ pc \in {"fs_api", "fs_landing", "fs_probe", "fs_walk", "fs_common"}
  /\ CatchStructureError("Failed to fetch repository structure")
  /\ UNCHANGED <<handlerVars, branchVars>>
  /\ UNCHANGED asideVars

StructureThrows == StructureThrown /\ UNCHANGED repeatVars

(***************************************************************************)
(* determineDefaultBranch, of getRepositoryContent (lines 105-140) and of  *)
(* getRepositoryFileStructure (lines 216-261).                             *)
(***************************************************************************)
\* the answers to the GET of the landing page: an exception, a 2xx status
\* other than 200, or a 200 whose html may mention master and main
LandingOutcomes ==
  {[kind |-> "error", hasMaster |-> FALSE, hasMain |-> FALSE],
   [kind |-> "status", hasMaster |-> FALSE, hasMain |-> FALSE]}
    \cup {[kind |-> "html", hasMaster |-> m, hasMain |-> n] : m, n \in BOOLEAN}

\* the answers to a HEAD probe
ProbeOutcomes == {"200", "status", "error"}

contentCandidates == <<"main", "master", "develop">>
structureCandidates == <<"main", "master", "develop", "development">>

\* defaultFallback with the last candidate for the first
defaultFallbackLast == "develop"

\* 'main', the default of lines 136 and 138 (256 and 259)
defaultFallback == "main"

\* what the landing page decides: a branch, or "" when the probes are needed
LandingBranch(outcome) ==
  IF outcome.kind = "error" THEN defaultFallback
  ELSE IF outcome.kind = "html" /\ outcome.hasMaster THEN "master"
  ELSE IF outcome.kind = "html" /\ outcome.hasMain THEN "main"
  ELSE ""

\* what is remembered of the landing-page answer
LandingSummary(outcome) ==
  IF outcome.kind \in {"error", "status"} THEN outcome.kind
  ELSE IF LandingBranch(outcome) = "" THEN "none"
  ELSE "found"

\* the headers of axiosInstance (lines 13-19) with those of the request to the
\* tree endpoint (line 376)
TreeRequestHeaders ==
  {[name |-> "User-Agent", value |-> "Mozilla/5.0"],
   [name |-> "Accept", value |-> "application/vnd.github.v3+json"]}

\* getRepositoryContent has its branch and calls getRepositoryFileStructure,
\* which asks the tree endpoint first
StartStructure(branch) ==
  /\ defaultBranch' = branch
  /\ resolutions' = resolutions + 1
  /\ strategyLog' = Invoke(strategyLog, "tree")
  /\ treeBranch' = "main"
  /\ treeHeaders' = TreeRequestHeaders
  /\ probeIdx' = 0
  /\ pc' = "fs_api"

\* the handler receives a request (lines 23-36 and 51-78); start is where
\* getRepositoryContent begins
ReceiveAt(start) ==
  /\ pc = "h_start"
  /\ \E url \in Urls :
       /\ req' = url
       /\ IF gitHubUrlSchema(url) /\ (owner(url) = "" \/ repo(url) = "")
          THEN /\ response' = [status |-> 400, body |-> "Invalid repository URL format"]
               /\ pc' = "h_done"
               /\ UNCHANGED logCalls
          ELSE IF gitHubUrlSchema(url)
          THEN /\ pc' = start
               /\ UNCHANGED <<response, logCalls>>
          ELSE IF Truthy(url)
          THEN /\ logCalls' = Append(logCalls, FailureLog(url, ZodMessage(url)))
               /\ pc' = "h_errlog"
               /\ UNCHANGED response
          ELSE /\ response' = [status |-> 400, body |-> ZodMessage(url)]
               /\ pc' = "h_done"
               /\ UNCHANGED logCalls
  /\ UNCHANGED <<logs, currentId, result, branchVars, histVars, discVars, loopVars>>
  /\ UNCHANGED <<asideVars, repeatVars>>

Receive == ReceiveAt("rc_landing")

\* the answer to the landing-page request of getRepositoryContent
LandingWith(outcome) ==
  /\ pc = "rc_landing"
  /\   /\ landing' = LandingSummary(outcome)
       /\ IF LandingBranch(outcome) # ""
          THEN StartStructure(LandingBranch(outcome))
          ELSE /\ probeIdx' = 1
               /\ pc' = "rc_probe"
               /\ UNCHANGED <<defaultBranch, histVars>>
  /\ UNCHANGED <<probed, logCalls, result, handlerVars, loopVars>>
  /\ UNCHANGED <<allFiles, scrapeBranch, walkStack, walkReq, visitedDirectories, walkLog>>
  /\ UNCHANGED asideVars

Landing ==
  /\ \E outcome \in LandingOutcomes : LandingWith(outcome)
  /\ UNCHANGED repeatVars

\* the answer to the probe of one candidate branch
ProbeWith(outcome) ==
  /\ pc = "rc_probe"
  /\   /\ probed' = Append(probed, [branch |-> contentCandidates[probeIdx], ok |-> outcome = "200"])
       /\ IF outcome = "200"
          THEN StartStructure(contentCandidates[probeIdx])
          ELSE IF probeIdx < Len(contentCandidates)
          THEN /\ probeIdx' = probeIdx + 1
               /\ UNCHANGED <<pc, defaultBranch, histVars>>
          ELSE StartStructure(defaultFallback)
  /\ UNCHANGED <<landing, logCalls, result, handlerVars, loopVars>>
  /\ UNCHANGED <<allFiles, scrapeBranch, walkStack, walkReq, visitedDirectories, walkLog>>
  /\ UNCHANGED asideVars

Probe ==
  /\ \E outcome \in ProbeOutcomes : ProbeWith(outcome)
  /\ UNCHANGED repeatVars

(***************************************************************************)
(* getRepositoryFileStructure.                                             *)
(***************************************************************************)
TreeItems ==
  {[type |-> "blob", path |-> README], [type |-> "blob", path |-> LICENSE],
   [type |-> "blob", path |-> LOGO], [type |-> "tree", path |-> SRC]}

\* the answers to the GET of the tree endpoint: an exception, a status other
\* than 200, a 200 without a tree, or a 200 with a tree
TreeOutcomes ==
  {[kind |-> k, tree |-> <<>>] : k \in {"error", "status", "notree"}}
    \cup {[kind |-> "tree", tree |-> t] : t \in SeqsUpTo(TreeItems, MaxTreeLen)}

\* lines 385-389: the blobs of the tree left out as binary
BinaryBlobs(tree) ==
  Cardinality({i \in 1..Len(tree) :
                 tree[i].type = "blob" /\ tree[i].path # <<>> /\ isBinaryFile(tree[i].path)})

\* TreeFiles without the test of line 386 on the extension
RECURSIVE TreeFilesKeepingBinary(_)
TreeFilesKeepingBinary(tree) ==
  IF tree = <<>> THEN <<>>
  ELSE LET item == Head(tree)
       IN IF item.type = "blob" /\ item.path # <<>>
          THEN <<item.path>> \o TreeFilesKeepingBinary(Tail(tree))
          ELSE TreeFilesKeepingBinary(Tail(tree))

\* lines 385-389: the blobs of the tree that are not binary, in order
RECURSIVE TreeFiles(_)
TreeFiles(tree) ==
  IF tree = <<>> THEN <<>>
  ELSE LET item == Head(tree)
       IN IF item.type = "blob" /\ item.path # <<>> /\ ~isBinaryFile(item.path)
          THEN <<item.path>> \o TreeFiles(Tail(tree))
          ELSE TreeFiles(Tail(tree))

Links ==
  {[path |-> README, isDir |-> FALSE], [path |-> LOGO, isDir |-> FALSE],
   [path |-> SRC, isDir |-> TRUE], [path |-> LIB, isDir |-> TRUE]}

\* the answers to the GET of a directory page: an exception, a status other
\* than 200, or a page with the links fileLinks found on it
DirOutcomes ==
  {[kind |-> k, links |-> <<>>] : k \in {"error", "status"}}
    \cup {[kind |-> "page", links |-> l] : l \in SeqsUpTo(Links, MaxLinks)}

commonFiles ==
  << README, PACKAGE, LICENSE,
     <<".", "g", "i", "t", "i", "g", "n", "o", "r", "e">>,
     <<"i", "n", "d", "e", "x", ".", "j", "s">>,
     <<"i", "n", "d", "e", "x", ".", "t", "s">>,
     <<"i", "n", "d", "e", "x", ".", "h", "t", "m", "l">>,
     <<"s", "r", "c", "/", "i", "n", "d", "e", "x", ".", "j", "s">>,
     <<"s", "r", "c", "/", "i", "n", "d", "e", "x", ".", "t", "s">>,
     <<"s", "r", "c", "/", "A", "p", "p", ".", "j", "s">>,
     <<"s", "r", "c", "/", "A", "p", "p", ".", "t", "s", "x">> >>

\* the entries of commonFiles the model probes
probedCommonFiles == SubSeq(commonFiles, 1, MaxCommon)

\* lines 437-444: the ceiling on the number of files
LimitFiles(files) == IF Len(files) > maxFiles THEN slice(files, maxFiles) ELSE files

\* lines 358-361: a file link is added unless known or binary
AddFile(files, path) ==
  IF ~Includes(files, path) /\ ~isBinaryFile(path) THEN Append(files, path) ELSE files

\* ProcessDirectoryReturns without the depth guard
ProcessDirectoryReturnsOnVisitedOnly(path, depth, visited) == path \in visited

\* ProcessDirectoryReturns without the visited-set guard
ProcessDirectoryReturnsOnDepthOnly(path, depth, visited) == depth > maxDepth

\* lines 265-272: whether processDirectory(path, branch, depth) returns at once
ProcessDirectoryReturns(path, depth, visited) == depth > maxDepth \/ path \in visited

\* processDirectory from the loops suspended in stack (the innermost first),
\* up to the next directory page request or to the end of the walk
RECURSIVE Advance(_, _, _)
Advance(stack, files, visited) ==
  IF stack = <<>>
    THEN [done |-> TRUE, stack |-> <<>>, files |-> files, visited |-> visited, request |-> None]
  ELSE LET top == Head(stack)
       IN IF top.links = <<>> THEN Advance(Tail(stack), files, visited)
          ELSE LET link == Head(top.links)
                   rest == <<[top EXCEPT !.links = Tail(top.links)]>> \o Tail(stack)
               IN IF ~link.isDir THEN Advance(rest, AddFile(files, link.path), visited)
                  ELSE IF ProcessDirectoryReturns(link.path, top.depth + 1, visited)
                    THEN Advance(rest, files, visited)
                  ELSE [done |-> FALSE, stack |-> rest, files |-> files,
                        visited |-> visited \cup {link.path},
                        request |-> [path |-> link.path, depth |-> top.depth + 1]]

\* unchanged by a step that does not return to getRepositoryContent's loop
NoReturn == UNCHANGED <<loopVars, result, logCalls>>

\* TreeFound with the early return left out
TreeFoundIgnored(files) == FALSE

\* lines 393-395: the tree endpoint's files are returned if there are any
TreeFound(files) == Len(files) > 0

\* the answer to the tree endpoint request (lines 370-400)
TreeApiResponseWith(outcome) ==
  /\ pc = "fs_api"
  /\   LET files == IF outcome.kind = "tree" THEN allFiles \o TreeFiles(outcome.tree) ELSE allFiles
       IN /\ IF outcome.kind = "tree" /\ TreeFound(files)
             THEN /\ strategyLog' = Skip(Finish(strategyLog, Len(files), FALSE),
                                         BinaryBlobs(outcome.tree))
                  /\ ReturnFileTree(files)
             ELSE /\ strategyLog' = Finish(strategyLog, Len(files), outcome.kind = "error")
                  /\ allFiles' = files
                  /\ pc' = "fs_landing"
                  /\ UNCHANGED <<scrapeBranch, walkStack, walkReq, visitedDirectories, walkLog, probeIdx>>
                  /\ NoReturn
  /\ UNCHANGED <<resolutions, treeBranch, treeHeaders, handlerVars, branchVars>>
  /\ UNCHANGED asideVars

TreeApiResponse ==
  /\ \E outcome \in TreeOutcomes : TreeApiResponseWith(outcome)
  /\ UNCHANGED repeatVars

\* the page of directory request.path is asked for (line 279): the nth time
\* in this discovery
Requested(log, request) ==
  log \cup {[path |-> request.path, depth |-> request.depth,
             nth |-> 1 + Cardinality({e \in log : e.path = request.path}),
             failed |-> FALSE, back |-> FALSE]}

\* the request in flight was answered: failed when the answer was an exception
\* or a status other than 200, so that the catch of lines 365-367 or the
\* test of line 284
\* ended processDirectory for that path; back when the page has a link to a
\* directory that was visited, its own included
Settled(log, request, outcome, visited) ==
  {IF e.path = request.path /\ e.nth = Cardinality({o \in log : o.path = request.path})
   THEN [e EXCEPT !.failed = outcome.kind # "page",
                  !.back = \E i \in 1..Len(outcome.links) :
                             outcome.links[i].isDir /\ outcome.links[i].path \in visited]
   ELSE e : e \in log}

\* the walk is at adv on branch: a page request is in flight, or the walk is
\* over and getRepositoryFileStructure goes on (lines 409-444)
WalkTo(adv, branch, log, asked) ==
  IF ~adv.done
  THEN /\ allFiles' = adv.files
       /\ scrapeBranch' = branch
       /\ walkStack' = adv.stack
       /\ walkReq' = adv.request
       /\ visitedDirectories' = adv.visited
       /\ walkLog' = Requested(asked, adv.request)
       /\ UNCHANGED probeIdx
       /\ strategyLog' = log
       /\ pc' = "fs_walk"
       /\ NoReturn
  ELSE IF Len(adv.files) = 0
  THEN /\ allFiles' = adv.files
       /\ scrapeBranch' = branch
       /\ walkStack' = adv.stack
       /\ walkReq' = adv.request
       /\ visitedDirectories' = adv.visited
       /\ walkLog' = asked
       /\ probeIdx' = 1
       /\ strategyLog' = Invoke(Finish(log, 0, FALSE), "common")
       /\ pc' = "fs_common"
       /\ NoReturn
  ELSE /\ strategyLog' = Finish(log, Len(adv.files), FALSE)
       /\ ReturnFileTree(LimitFiles(adv.files))

\* determineDefaultBranch of getRepositoryFileStructure returned branch: the
\* walk starts with processDirectory('', branch, 0)
StartScrape(branch) ==
  /\ resolutions' = resolutions + 1
  /\ UNCHANGED <<treeBranch, treeHeaders>>
  /\ WalkTo(Advance(<<[links |-> <<[path |-> ROOT, isDir |-> TRUE]>>, depth |-> -1]>>,
                    allFiles, visitedDirectories),
            branch, Invoke(strategyLog, "scrape"), walkLog)

\* the answer to the landing-page request of getRepositoryFileStructure
StructureLandingWith(outcome) ==
  /\ pc = "fs_landing"
  /\   IF LandingBranch(outcome) # ""
       THEN StartScrape(LandingBranch(outcome))
       ELSE /\ probeIdx' = 1
            /\ pc' = "fs_probe"
            /\ UNCHANGED <<allFiles, scrapeBranch, walkStack, walkReq, visitedDirectories, walkLog, histVars>>
            /\ NoReturn
  /\ UNCHANGED <<handlerVars, branchVars>>
  /\ UNCHANGED asideVars

StructureLanding ==
  /\ \E outcome \in LandingOutcomes : StructureLandingWith(outcome)
  /\ UNCHANGED repeatVars

\* StructureProbe with the candidates probed again from the first after the
\* last, instead of the fallback
StructureProbeCycling(outcome) ==
  /\ pc = "fs_probe"
  /\   IF outcome = "200"
       THEN StartScrape(structureCandidates[probeIdx])
       ELSE IF probeIdx < Len(structureCandidates)
       THEN /\ probeIdx' = probeIdx + 1
            /\ UNCHANGED <<pc, allFiles, scrapeBranch, walkStack, walkReq, visitedDirectories, walkLog, histVars>>
            /\ NoReturn
       ELSE /\ probeIdx' = 1
            /\ UNCHANGED <<pc, allFiles, scrapeBranch, walkStack, walkReq, visitedDirectories, walkLog, histVars>>
            /\ NoReturn
  /\ UNCHANGED <<handlerVars, branchVars>>
  /\ UNCHANGED asideVars

\* the answer to the probe of one candidate branch
StructureProbeWith(outcome) ==
  /\ pc = "fs_probe"
  /\   IF outcome = "200"
       THEN StartScrape(structureCandidates[probeIdx])
       ELSE IF probeIdx < Len(structureCandidates)
       THEN /\ probeIdx' = probeIdx + 1
            /\ UNCHANGED <<pc, allFiles, scrapeBranch, walkStack, walkReq, visitedDirectories, walkLog, histVars>>
            /\ NoReturn
       ELSE StartScrape(defaultFallback)
  /\ UNCHANGED <<handlerVars, branchVars>>
  /\ UNCHANGED asideVars

StructureProbe ==
  /\ \E outcome \in ProbeOutcomes : StructureProbeWith(outcome)
  /\ UNCHANGED repeatVars

\* DirectoryResponse with a failed page ending the whole walk
DirectoryResponseAborting(outcome) ==
  /\ pc = "fs_walk"
  /\   LET stack == IF outcome.kind = "page"
                    THEN <<[links |-> outcome.links, depth |-> walkReq.depth]>> \o walkStack
                    ELSE <<>>
       IN WalkTo(Advance(stack, allFiles, visitedDirectories), scrapeBranch, strategyLog,
                 Settled(walkLog, walkReq, outcome, visitedDirectories))
  /\ UNCHANGED <<resolutions, treeBranch, treeHeaders, handlerVars, branchVars>>
  /\ UNCHANGED asideVars

\* the answer to the directory page request in flight (lines 277-367)
DirectoryResponseWith(outcome) ==
  /\ pc = "fs_walk"
  /\   LET stack == IF outcome.kind = "page"
                    THEN <<[links |-> outcome.links, depth |-> walkReq.depth]>> \o walkStack
                    ELSE walkStack
       IN WalkTo(Advance(stack, allFiles, visitedDirectories), scrapeBranch, strategyLog,
                 Settled(walkLog, walkReq, outcome, visitedDirectories))
  /\ UNCHANGED <<resolutions, treeBranch, treeHeaders, handlerVars, branchVars>>
  /\ UNCHANGED asideVars

DirectoryResponse ==
  /\ \E outcome \in DirOutcomes : DirectoryResponseWith(outcome)
  /\ UNCHANGED repeatVars

\* the answer to the HEAD probe of one common file (lines 420-434)
CommonFileResponseWith(outcome) ==
  /\ pc = "fs_common"
  /\   LET files == IF outcome = "200"
                    THEN Append(allFiles, probedCommonFiles[probeIdx])
                    ELSE allFiles
       IN IF probeIdx < Len(probedCommonFiles)
          THEN /\ allFiles' = files
               /\ probeIdx' = probeIdx + 1
               /\ UNCHANGED <<pc, scrapeBranch, walkStack, walkReq, visitedDirectories, walkLog, strategyLog>>
               /\ NoReturn
          ELSE /\ strategyLog' = Finish(strategyLog, Len(files), FALSE)
               /\ ReturnFileTree(LimitFiles(files))
  /\ UNCHANGED <<resolutions, treeBranch, treeHeaders, handlerVars, branchVars>>
  /\ UNCHANGED asideVars

CommonFileResponse ==
  /\ \E outcome \in ProbeOutcomes : CommonFileResponseWith(outcome)
  /\ UNCHANGED repeatVars

(***************************************************************************)
(* The handler's log writes and its response (lines 40-78), with           *)
(* MemStorage.logRepositoryProcessing.                                     *)
(***************************************************************************)
\* the answers of the log store to a write: the entry is stored, or the
\* write throws and stores nothing
LogOutcomes == {"stored", "throws"}

\* Map.prototype.set on the map of logs, kept in insertion order: the value of
\* a key that is present is replaced in place, a new key goes last
MapSet(map, id, log) ==
  IF \E i \in 1..Len(map) : map[i].id = id
  THEN [i \in 1..Len(map) |-> IF map[i].id = id THEN [id |-> id, log |-> log] ELSE map[i]]
  ELSE Append(map, [id |-> id, log |-> log])

\* the write with this.currentId read and not incremented
logRepositoryProcessingSameId(log) ==
  /\ logs' = MapSet(logs, currentId, log)
  /\ currentId' = currentId

\* lines 21-26 of storage.ts
logRepositoryProcessing(log) ==
  /\ logs' = MapSet(logs, currentId, log)
  /\ currentId' = currentId + 1

\* the handler goes on after getRepositoryContent: the locals of the
\* acquisition are gone, and with them what was recorded of its requests
ForgetAcquisition ==
  /\ defaultBranch' = ""
  /\ landing' = ""
  /\ probed' = <<>>
  /\ resolutions' = 0
  /\ treeBranch' = ""
  /\ treeHeaders' = {}
  /\ fileTree' = <<>>
  /\ uniqueFiles' = <<>>
  /\ idx' = 0
  /\ allContent' = <<>>
  /\ fileCount' = 0
  /\ lineCount' = 0
  /\ fetchBranches' = <<>>
  /\ fetchLog' = <<>>
  /\ fileResults' = <<>>

\* the answer to the log write that follows getRepositoryContent
LogSuccess ==
  /\ pc = "h_log"
  /\ \E outcome \in LogOutcomes :
       IF outcome = "stored"
       THEN /\ logRepositoryProcessing(logCalls[Len(logCalls)])
            /\ response' = [status |-> 200, body |-> result]
            /\ pc' = "h_done"
            /\ UNCHANGED logCalls
       ELSE /\ logCalls' = Append(logCalls, FailureLog(req, "log store failure"))
            /\ pc' = "h_errlog"
            /\ UNCHANGED <<logs, currentId, response>>
  /\ ForgetAcquisition
  /\ UNCHANGED <<req, result, strategyLog, discVars>>
  /\ UNCHANGED <<asideVars, repeatVars>>

\* the answer to the log write of the catch block
LogFailure ==
  /\ pc = "h_errlog"
  /\ \E outcome \in LogOutcomes :
       /\ IF outcome = "stored"
          THEN logRepositoryProcessing(logCalls[Len(logCalls)])
          ELSE UNCHANGED <<logs, currentId>>
       /\ response' = [status |-> 400, body |-> logCalls[Len(logCalls)].errorMessage]
       /\ pc' = "h_done"
  /\ ForgetAcquisition
  /\ UNCHANGED <<req, logCalls, result, strategyLog, discVars>>
  /\ UNCHANGED <<asideVars, repeatVars>>

Next ==
  \/ Receive
  \/ Landing
  \/ Probe
  \/ TreeApiResponse
  \/ StructureLanding
  \/ StructureProbe
  \/ DirectoryResponse
  \/ CommonFileResponse
  \/ StructureThrows
  \/ FileResponse
  \/ LogSuccess
  \/ LogFailure

Spec == Init /\ [][Next]_vars

(***************************************************************************)
(* getRepositoryContent called twice in succession for a repository that    *)
(* does not change: a request that was answered before gets the same       *)
(* answer again.                                                           *)
(***************************************************************************)
\* the answers the repository is taken to give: one of each kind the code
\* tells apart
RepeatProbeOutcomes == {"200", "status"}

RepeatTreeOutcomes ==
  {[kind |-> "error", tree |-> <<>>], [kind |-> "notree", tree |-> <<>>],
   [kind |-> "tree", tree |-> <<[type |-> "blob", path |-> README], [type |-> "blob", path |-> LOGO]>>],
   [kind |-> "tree", tree |-> <<[type |-> "blob", path |-> README], [type |-> "blob", path |-> LICENSE]>>]}

RepeatDirOutcomes ==
  {[kind |-> "status", links |-> <<>>], [kind |-> "page", links |-> <<>>],
   [kind |-> "page", links |-> <<[path |-> README, isDir |-> FALSE], [path |-> SRC, isDir |-> TRUE]>>],
   [kind |-> "page", links |-> <<[path |-> LOGO, isDir |-> FALSE], [path |-> LIB, isDir |-> TRUE]>>]}

RepeatFetchOutcomes ==
  {[kind |-> "status", data |-> <<>>], [kind |-> "nonstring", data |-> <<>>],
   [kind |-> "ok", data |-> <<X, NL, X>>]}

\* the request the call is waiting on: <<method, host, branch, path>>
RequestInFlight ==
  CASE pc \in {"rc_landing", "fs_landing"} -> <<"GET", "github.com", "", ROOT>>
    [] pc = "rc_probe" -> <<"HEAD", "raw.githubusercontent.com", contentCandidates[probeIdx], README>>
    [] pc = "fs_probe" -> <<"HEAD", "github.com/tree", structureCandidates[probeIdx], ROOT>>
    [] pc = "fs_api" -> <<"GET", "api.github.com", "main", ROOT>>
    [] pc = "fs_walk" -> <<"GET", "github.com/tree", scrapeBranch, walkReq.path>>
    [] pc = "fs_common" -> <<"HEAD", "raw.githubusercontent.com", scrapeBranch, probedCommonFiles[probeIdx]>>
    [] pc = "rc_fetch" -> <<"GET", "raw.githubusercontent.com", Head(fetchBranches), uniqueFiles[idx]>>

\* the repository answers the request in flight with outcome: as it did
\* before if it was asked before
Answered(outcome) ==
  /\ RequestInFlight \notin thrownAt
  /\ \A known \in world : known[1] = RequestInFlight => known[2] = outcome
  /\ world' = world \cup {<<RequestInFlight, outcome>>}
  /\ UNCHANGED <<thrownAt, first, run>>

RepeatLanding ==
  \E outcome \in LandingOutcomes : LandingWith(outcome) /\ Answered(outcome)

RepeatProbe ==
  \E outcome \in RepeatProbeOutcomes : ProbeWith(outcome) /\ Answered(outcome)

RepeatTreeApiResponse ==
  \E outcome \in RepeatTreeOutcomes : TreeApiResponseWith(outcome) /\ Answered(outcome)

RepeatStructureLanding ==
  \E outcome \in LandingOutcomes : StructureLandingWith(outcome) /\ Answered(outcome)

RepeatStructureProbe ==
  \E outcome \in RepeatProbeOutcomes : StructureProbeWith(outcome) /\ Answered(outcome)

RepeatDirectoryResponse ==
  \E outcome \in RepeatDirOutcomes : DirectoryResponseWith(outcome) /\ Answered(outcome)

RepeatCommonFileResponse ==
  \E outcome \in RepeatProbeOutcomes : CommonFileResponseWith(outcome) /\ Answered(outcome)

RepeatFileResponse ==
  \E outcome \in RepeatFetchOutcomes : FileResponseWith(outcome) /\ Answered(outcome)

\* the answer to the request in flight makes getRepositoryFileStructure throw
RepeatStructureThrows ==
  /\ StructureThrown
  /\ \A known \in world : known[1] # RequestInFlight
  /\ thrownAt' = thrownAt \cup {RequestInFlight}
  /\ UNCHANGED <<world, first, run>>

\* the first call has returned and getRepositoryContent is called again for
\* the same repository
InvokeAgain ==
  /\ pc = "h_log"
  /\ run = 1
  /\ first' = result
  /\ run' = 2
  /\ pc' = "rc_landing"
  /\ result' = None
  /\ logCalls' = <<>>
  /\ strategyLog' = <<>>
  /\ ForgetAcquisition
  /\ UNCHANGED <<handlerVars, discVars, world, thrownAt, asideVars>>

NextTwice ==
  \/ Receive
  \/ RepeatLanding
  \/ RepeatProbe
  \/ RepeatTreeApiResponse
  \/ RepeatStructureLanding
  \/ RepeatStructureProbe
  \/ RepeatDirectoryResponse
  \/ RepeatCommonFileResponse
  \/ RepeatStructureThrows
  \/ RepeatFileResponse
  \/ InvokeAgain
  \/ LogSuccess
  \/ LogFailure

SpecTwice == Init /\ [][NextTwice]_vars

(***************************************************************************)
(* The earlier server/routes.ts kept in src/unnamed/part_001 (lines 1-382):*)
(* the same handler over an acquisition with one landing-page check, the   *)
(* tree endpoint asked for main and for master, an unbounded file list and *)
(* a getFileContent that goes on to other branches.                        *)
(***************************************************************************)
\* the depth limit of scrapeRepositoryStructure, 20 in the source
legacyMaxDepth == 1

\* the longest tree the tree endpoint answers with here
MaxLegacyTreeLen == 2

\* the longest file content answered here
MaxLegacyContentLen == 1

ICON == <<"i", "c", "o", "n", ".", "s", "v", "g">>

legacyBinaryExtensions ==
  binaryExtensions \cup
    { <<".", "s", "v", "g">>, <<".", "w", "o", "f", "f">>, <<".", "w", "o", "f", "f", "2">>,
      <<".", "t", "t", "f">>, <<".", "e", "o", "t">> }

legacyIsBinaryFile(filename) ==
  toLowerCase(substring(filename, lastIndexOf(filename, "."))) \in legacyBinaryExtensions

\* line 46
legacyBranchesToTry(branch) == <<branch, "main", "master", "develop">>

legacyTreeBranches == <<"main", "master">>

legacyCommonFiles == SubSeq(commonFiles, 1, 4)

legacyProbedCommonFiles ==
  SubSeq(legacyCommonFiles, 1, IF MaxCommon < 4 THEN MaxCommon ELSE 4)

LegacyTreeItems ==
  {[type |-> "blob", path |-> README], [type |-> "blob", path |-> LICENSE],
   [type |-> "blob", path |-> ICON], [type |-> "tree", path |-> SRC]}

LegacyTreeOutcomes ==
  {[kind |-> k, tree |-> <<>>] : k \in {"error", "status", "notree"}}
    \cup {[kind |-> "tree", tree |-> t] : t \in SeqsUpTo(LegacyTreeItems, MaxLegacyTreeLen)}

LegacyLinks ==
  {[path |-> README, isDir |-> FALSE], [path |-> ICON, isDir |-> FALSE],
   [path |-> SRC, isDir |-> TRUE], [path |-> LIB, isDir |-> TRUE]}

LegacyDirOutcomes ==
  {[kind |-> "error", links |-> <<>>]}
    \cup {[kind |-> "page", links |-> l] : l \in SeqsUpTo(LegacyLinks, MaxLinks)}

\* lines 136-140: the blobs of the tree left out as binary
LegacyBinaryBlobs(tree) ==
  Cardinality({i \in 1..Len(tree) :
                 tree[i].type = "blob" /\ tree[i].path # <<>>
                   /\ legacyIsBinaryFile(tree[i].path)})

\* lines 136-140
RECURSIVE LegacyTreeFiles(_)
LegacyTreeFiles(tree) ==
  IF tree = <<>> THEN <<>>
  ELSE LET item == Head(tree)
       IN IF item.type = "blob" /\ item.path # <<>> /\ ~legacyIsBinaryFile(item.path)
          THEN <<item.path>> \o LegacyTreeFiles(Tail(tree))
          ELSE LegacyTreeFiles(Tail(tree))

LegacyFetchOutcomes ==
  {o \in FetchOutcomes : o.kind = "ok" => Len(o.data) <= MaxLegacyContentLen}

\* lines 71-79: no truncation
LegacyFormatFile(path, content) ==
  [content |-> <<Header(path), NL>> \o content \o <<NL, NL>>,
   lineCount |-> Len(split(content))]

\* lines 48-91
LegacyFileAnswer(path, branches, outcome) ==
  IF outcome.kind = "ok"
    THEN [returns |-> TRUE, value |-> LegacyFormatFile(path, outcome.data)]
  ELSE IF outcome.kind = "nonstring"
    THEN [returns |-> TRUE, value |-> BinaryBlock(path)]
  ELSE IF Len(branches) > 1
    THEN [returns |-> FALSE, value |-> None]
  ELSE [returns |-> TRUE, value |-> UnavailableBlock(path)]

LegacyFallbackContent ==
  <<Tok("# Repository: owner/repo"), NL, NL,
    Tok("No valid text files could be found in this repository.")>>

\* lines 206-218: the fallback message leaves fileCount as it is
LegacyAggregate(content, fc, lc) ==
  IF content = <<>>
  THEN [content |-> LegacyFallbackContent, fileCount |-> fc, lineCount |-> 3]
  ELSE [content |-> content, fileCount |-> fc, lineCount |-> lc]

RECURSIVE LegacyNextIdx(_, _)
LegacyNextIdx(files, i) ==
  IF i > Len(files) THEN i
  ELSE IF legacyIsBinaryFile(files[i]) THEN LegacyNextIdx(files, i + 1)
  ELSE i

\* the loop of lines 184-204 from index i on, up to the next file request or
\* to the end of the function
LegacyContinueLoop(files, i, content, fc, lc) ==
  LET j == LegacyNextIdx(files, i)
  IN /\ uniqueFiles' = files
     /\ idx' = j
     /\ IF j > Len(files)
        THEN LET res == LegacyAggregate(content, fc, lc)
             IN /\ allContent' = res.content
                /\ fileCount' = res.fileCount
                /\ lineCount' = res.lineCount
                /\ fetchBranches' = <<>>
                /\ fetchLog' = fetchLog
                /\ ReturnResult(res)
        ELSE /\ allContent' = content
             /\ fileCount' = fc
             /\ lineCount' = lc
             /\ fetchBranches' = legacyBranchesToTry(defaultBranch)
             /\ fetchLog' = Append(fetchLog, [path |-> files[j], branch |-> defaultBranch])
             /\ result' = result
             /\ logCalls' = logCalls
             /\ pc' = "lg_fetch"

\* discovery is over with files: every one of them is processed
LegacyStartLoop(files) ==
  /\ DiscardStructureLocals
  /\ fileTree' = files
  /\ fileResults' = <<>>
  /\ LegacyContinueLoop(files, 1, <<>>, 0, 0)

LegacyReceive == ReceiveAt("lg_landing")

\* lines 108-119, and the first request to the tree endpoint
LegacyLanding ==
  /\ pc = "lg_landing"
  /\ \E outcome \in LandingOutcomes :
       /\ landing' = LandingSummary(outcome)
       /\ defaultBranch' = IF outcome.kind = "html" /\ outcome.hasMaster THEN "master" ELSE "main"
  /\ resolutions' = resolutions + 1
  /\ strategyLog' = Invoke(strategyLog, "tree")
  /\ treeBranch' = legacyTreeBranches[1]
  /\ treeHeaders' = TreeRequestHeaders
  /\ probeIdx' = 1
  /\ pc' = "lg_api"
  /\ UNCHANGED <<probed, logCalls, result, handlerVars, loopVars>>
  /\ UNCHANGED <<allFiles, scrapeBranch, walkStack, walkReq, visitedDirectories, walkLog>>
  /\ UNCHANGED <<asideVars, repeatVars>>

\* lines 298-300
LegacyAddFile(files, path) ==
  IF ~legacyIsBinaryFile(path) /\ ~Includes(files, path) THEN Append(files, path) ELSE files

\* scrapeRepositoryStructure from the loops suspended in stack, up to the
\* next directory page request or to the end of the walk
RECURSIVE LegacyAdvance(_, _, _)
LegacyAdvance(stack, files, visited) ==
  IF stack = <<>>
    THEN [done |-> TRUE, stack |-> <<>>, files |-> files, visited |-> visited, request |-> None]
  ELSE LET top == Head(stack)
       IN IF top.links = <<>> THEN LegacyAdvance(Tail(stack), files, visited)
          ELSE LET link == Head(top.links)
                   rest == <<[top EXCEPT !.links = Tail(top.links)]>> \o Tail(stack)
               IN IF ~link.isDir THEN LegacyAdvance(rest, LegacyAddFile(files, link.path), visited)
                  ELSE IF top.depth + 1 > legacyMaxDepth \/ link.path \in visited
                    THEN LegacyAdvance(rest, files, visited)
                  ELSE [done |-> FALSE, stack |-> rest, files |-> files,
                        visited |-> visited \cup {link.path},
                        request |-> [path |-> link.path, depth |-> top.depth + 1]]

\* the walk is at adv: a page request is in flight, or the walk is over and
\* lines 164-204 follow
LegacyWalkTo(adv, log, asked) ==
  IF ~adv.done
  THEN /\ allFiles' = adv.files
       /\ scrapeBranch' = defaultBranch
       /\ walkStack' = adv.stack
       /\ walkReq' = adv.request
       /\ visitedDirectories' = adv.visited
       /\ walkLog' = Requested(asked, adv.request)
       /\ UNCHANGED probeIdx
       /\ strategyLog' = log
       /\ pc' = "lg_walk"
       /\ NoReturn
  ELSE IF Len(adv.files) = 0
  THEN /\ allFiles' = adv.files
       /\ scrapeBranch' = defaultBranch
       /\ walkStack' = adv.stack
       /\ walkReq' = adv.request
       /\ visitedDirectories' = adv.visited
       /\ walkLog' = asked
       /\ probeIdx' = 1
       /\ strategyLog' = Invoke(Finish(log, 0, FALSE), "common")
       /\ pc' = "lg_common"
       /\ NoReturn
  ELSE /\ strategyLog' = Finish(log, Len(adv.files), FALSE)
       /\ LegacyStartLoop(adv.files)

\* the answer to a request to the tree endpoint (lines 125-162): the loop over
\* main and master is one run of the tree strategy
LegacyTreeApiResponse ==
  /\ pc = "lg_api"
  /\ \E outcome \in LegacyTreeOutcomes :
       LET files == IF outcome.kind = "tree" THEN allFiles \o LegacyTreeFiles(outcome.tree)
                    ELSE allFiles
           log == Finish(strategyLog, Len(files), outcome.kind = "error")
       IN IF Len(files) > 0
          THEN /\ strategyLog' = Skip(log, LegacyBinaryBlobs(outcome.tree))
               /\ UNCHANGED <<treeBranch, treeHeaders>>
               /\ LegacyStartLoop(files)
          ELSE IF probeIdx < Len(legacyTreeBranches)
          THEN /\ strategyLog' = log
               /\ treeBranch' = legacyTreeBranches[probeIdx + 1]
               /\ treeHeaders' = TreeRequestHeaders
               /\ probeIdx' = probeIdx + 1
               /\ UNCHANGED <<pc, allFiles, scrapeBranch, walkStack, walkReq, visitedDirectories, walkLog>>
               /\ NoReturn
          ELSE /\ UNCHANGED <<treeBranch, treeHeaders>>
               /\ LegacyWalkTo(LegacyAdvance(<<[links |-> <<[path |-> ROOT, isDir |-> TRUE]>>,
                                                depth |-> -1]>>, files, {}),
                               Invoke(log, "scrape"), walkLog)
  /\ UNCHANGED <<resolutions, handlerVars, branchVars>>
  /\ UNCHANGED <<asideVars, repeatVars>>

\* the answer to the directory page request in flight (lines 247-305)
LegacyDirectoryResponse ==
  /\ pc = "lg_walk"
  /\ \E outcome \in LegacyDirOutcomes :
       LET stack == IF outcome.kind = "page"
                    THEN <<[links |-> outcome.links, depth |-> walkReq.depth]>> \o walkStack
                    ELSE walkStack
       IN LegacyWalkTo(LegacyAdvance(stack, allFiles, visitedDirectories), strategyLog,
                       Settled(walkLog, walkReq, outcome, visitedDirectories))
  /\ UNCHANGED <<resolutions, treeBranch, treeHeaders, handlerVars, branchVars>>
  /\ UNCHANGED <<asideVars, repeatVars>>

\* the answer to the HEAD probe of one common file (lines 165-179)
LegacyCommonFileResponse ==
  /\ pc = "lg_common"
  /\ \E outcome \in ProbeOutcomes :
       LET files == IF outcome = "200"
                    THEN Append(allFiles, legacyProbedCommonFiles[probeIdx])
                    ELSE allFiles
       IN IF probeIdx < Len(legacyProbedCommonFiles)
          THEN /\ allFiles' = files
               /\ probeIdx' = probeIdx + 1
               /\ UNCHANGED <<pc, scrapeBranch, walkStack, walkReq, visitedDirectories, walkLog, strategyLog>>
               /\ NoReturn
          ELSE /\ strategyLog' = Finish(strategyLog, Len(files), FALSE)
               /\ LegacyStartLoop(files)
  /\ UNCHANGED <<resolutions, treeBranch, treeHeaders, handlerVars, branchVars>>
  /\ UNCHANGED <<asideVars, repeatVars>>

\* the answer to the file request in flight (lines 184-204 with 43-99)
LegacyFileResponse ==
  /\ pc = "lg_fetch"
  /\ \E outcome \in LegacyFetchOutcomes :
       LET path == uniqueFiles[idx]
           answer == LegacyFileAnswer(path, fetchBranches, outcome)
           failed == outcome.kind \in {"status", "error"}
       IN IF answer.returns
          THEN /\ fileResults' = Append(fileResults, [path |-> path, failed |-> failed,
                                                     threw |-> FALSE, value |-> answer.value,
                                                     text |-> outcome.kind = "ok",
                                                     data |-> outcome.data])
               /\ LegacyContinueLoop(uniqueFiles, idx + 1, allContent \o answer.value.content,
                                     fileCount + 1, lineCount + answer.value.lineCount)
          ELSE /\ fetchBranches' = Tail(fetchBranches)
               /\ fetchLog' = Append(fetchLog, [path |-> path, branch |-> fetchBranches[2]])
               /\ UNCHANGED <<pc, result, logCalls, uniqueFiles, idx, allContent, fileCount,
                              lineCount, fileResults>>
  /\ UNCHANGED <<fileTree, handlerVars, branchVars, histVars, discVars>>
  /\ UNCHANGED <<asideVars, repeatVars>>

NextLegacy ==
  \/ LegacyReceive
  \/ LegacyLanding
  \/ LegacyTreeApiResponse
  \/ LegacyDirectoryResponse
  \/ LegacyCommonFileResponse
  \/ LegacyFileResponse
  \/ LogSuccess
  \/ LogFailure

SpecLegacy == Init /\ [][NextLegacy]_vars

(***************************************************************************)
(* The clone strategy: api/process-repository.ts.  Each invocation of      *)
(* extractRepository is a process of its own; an action is the answer to   *)
(* the call the invocation awaits, with the code that runs up to the next  *)
(* await.                                                                  *)
(***************************************************************************)
GITIGNORE == <<".", "g", "i", "t", "i", "g", "n", "o", "r", "e">>

BINARY_EXTENSIONS ==
  { <<".", "j", "p", "g">>, <<".", "j", "p", "e", "g">>, <<".", "p", "n", "g">>,
    <<".", "g", "i", "f">>, <<".", "b", "m", "p">>, <<".", "i", "c", "o">>,
    <<".", "w", "e", "b", "p">>, <<".", "t", "i", "f", "f">>, <<".", "s", "v", "g">>,
    <<".", "m", "p", "3">>, <<".", "m", "p", "4">>, <<".", "w", "a", "v">>,
    <<".", "a", "v", "i">>, <<".", "m", "o", "v">>, <<".", "w", "m", "v">>,
    <<".", "f", "l", "v">>, <<".", "o", "g", "g">>,
    <<".", "p", "d", "f">>, <<".", "d", "o", "c">>, <<".", "d", "o", "c", "x">>,
    <<".", "x", "l", "s">>, <<".", "x", "l", "s", "x">>, <<".", "p", "p", "t">>,
    <<".", "p", "p", "t", "x">>,
    <<".", "z", "i", "p">>, <<".", "r", "a", "r">>, <<".", "7", "z">>,
    <<".", "t", "a", "r">>, <<".", "g", "z">>, <<".", "e", "x", "e">>,
    <<".", "d", "l", "l">>, <<".", "s", "o">>, <<".", "b", "i", "n">>,
    <<".", "d", "a", "t">>, <<".", "d", "b">>, <<".", "s", "q", "l", "i", "t", "e">>,
    <<".", "c", "l", "a", "s", "s">>, <<".", "j", "a", "r">>, <<".", "w", "a", "r">>,
    <<".", "p", "y", "c">>, <<".", "p", "y", "d">>,
    <<".", "w", "o", "f", "f">>, <<".", "w", "o", "f", "f", "2">>,
    <<".", "t", "t", "f">>, <<".", "e", "o", "t">> }

\* path.extname: from the last dot, empty when the name has none or starts with it
extname(filePath) ==
  IF lastIndexOf(filePath, ".") <= 0 THEN <<>>
  ELSE substring(filePath, lastIndexOf(filePath, "."))

cloneIsBinaryFile(filePath) == toLowerCase(extname(filePath)) \in BINARY_EXTENSIONS

\* filePath.includes('.git')
includesGit(filePath) ==
  \E i \in 1..(Len(filePath) - 3) : SubSeq(filePath, i, i + 3) = <<".", "g", "i", "t">>

\* the files a repository is made of; a readable file holds FileData
FileData == <<X, NL, X>>
RepoFiles ==
  { [name |-> README, readable |-> TRUE], [name |-> README, readable |-> FALSE],
    [name |-> LOGO, readable |-> TRUE], [name |-> GITIGNORE, readable |-> TRUE] }
Repositories == SeqsUpTo(RepoFiles, MaxEntries)

\* getTempDir: the directory is named after the millisecond of the call
getTempDir == now

\* addMetadata: the header carries the time of the call
addMetadata == <<[t |-> "metadata", p |-> <<>>, a |-> now, b |-> 0]>>

Marked(path, mark) == [t |-> mark, p |-> path, a |-> 0, b |-> 0]

\* processFile on a file that is still there
processFile(file) ==
  IF includesGit(file.name) THEN [content |-> <<>>, lineCount |-> 0]
  ELSE IF cloneIsBinaryFile(file.name)
    THEN [content |-> <<Marked(file.name, "[BINARY FILE - CONTENT SKIPPED]")>>, lineCount |-> 1]
  ELSE IF file.readable
    THEN [content |-> <<Header(file.name)>> \o FileData, lineCount |-> Len(split(FileData))]
  ELSE [content |-> <<Marked(file.name, "[ERROR READING FILE]")>>, lineCount |-> 1]

\* processDir's loop body once processFile has answered (lines 169-175)
Accumulate(totals, fileResult) ==
  [content |-> totals.content \o fileResult.content,
   fileCount |-> IF fileResult.content # <<>> THEN totals.fileCount + 1 ELSE totals.fileCount,
   lineCount |-> totals.lineCount + fileResult.lineCount]

\* the invocation touches its directory, whoever made it
Access(p) ==
  IF disk[tempDir[p]] = None THEN accesses
  ELSE accesses \cup {[by |-> p, owner |-> disk[tempDir[p]].owner]}

\* the locals of an invocation that has returned or thrown are gone
Leave(p) ==
  /\ cpc' = [cpc EXCEPT ![p] = "done"]
  /\ extractedContent' = [extractedContent EXCEPT ![p] = <<>>]
  /\ entries' = [entries EXCEPT ![p] = <<>>]
  /\ cidx' = [cidx EXCEPT ![p] = 0]
  /\ acc' = [acc EXCEPT ![p] = None]

\* an error reaches the catch block, which calls fs.remove (lines 224-227)
Catch(p, error) ==
  /\ caught' = [caught EXCEPT ![p] = error]
  /\ cpc' = [cpc EXCEPT ![p] = "cleanup"]

\* processRepository returns and fs.remove is called (lines 189-193, 214-217)
ProcessRepositoryReturns(p, totals) ==
  /\ processed' = [processed EXCEPT ![p] = totals]
  /\ cpc' = [cpc EXCEPT ![p] = "remove"]

requestVars == <<pc, logCalls, result, handlerVars, branchVars, histVars, discVars, loopVars, repeatVars>>

\* Date.now() moves on
Tick ==
  /\ now < MaxClock
  /\ now' = now + 1
  /\ UNCHANGED <<repository, disk, accesses, invocationVars, requestVars, apartVars>>


\* extractRepository is called: getTempDir, then fs.ensureDir is awaited (199-200)
extractRepository(p) ==
  /\ cpc[p] = "idle"
  /\ tempDir' = [tempDir EXCEPT ![p] = getTempDir]
  /\ cpc' = [cpc EXCEPT ![p] = "ensureDir"]
  /\ UNCHANGED <<now, repository, disk, accesses, extractedContent, entries, cidx, acc,
                 processed, caught, removed, settled, requestVars, apartVars>>

\* fs.ensureDir answers; outside the try, its error leaves extractRepository (200-204)
EnsureDirAnswer(p) ==
  /\ cpc[p] = "ensureDir"
  /\ \E ok \in BOOLEAN :
       IF ok
       THEN /\ disk' = IF disk[tempDir[p]] = None
                       THEN [disk EXCEPT ![tempDir[p]] = [owner |-> p, cloned |-> FALSE]]
                       ELSE disk
            /\ cpc' = [cpc EXCEPT ![p] = "clone"]
            /\ UNCHANGED <<settled, extractedContent, entries, cidx, acc>>
       ELSE /\ settled' = [settled EXCEPT ![p] = [kind |-> "threw", error |-> "ensureDir failed"]]
            /\ Leave(p)
            /\ UNCHANGED disk
  /\ UNCHANGED <<now, repository, accesses, tempDir, processed, caught, removed, requestVars, apartVars>>

\* cloneRepository answers with false: the error is thrown outside the try
CloneAnswerThrowingOutside(p) ==
  /\ cpc[p] = "clone"
  /\ accesses' = Access(p)
  /\ \E ok \in BOOLEAN :
       IF ok /\ (disk[tempDir[p]] = None \/ ~disk[tempDir[p]].cloned)
       THEN /\ disk' = [disk EXCEPT ![tempDir[p]] =
                          [owner |-> IF @ = None THEN p ELSE @.owner, cloned |-> TRUE]]
            /\ extractedContent' = [extractedContent EXCEPT ![p] = addMetadata]
            /\ cpc' = [cpc EXCEPT ![p] = "countFiles"]
            /\ UNCHANGED <<caught, settled, entries, cidx, acc>>
       ELSE /\ settled' = [settled EXCEPT ![p] = [kind |-> "threw", error |-> "Failed to clone repository"]]
            /\ Leave(p)
            /\ UNCHANGED <<disk, caught>>
  /\ UNCHANGED <<now, repository, tempDir, processed, removed, requestVars, apartVars>>

\* cloneRepository answers (lines 204-213): git clones into a directory that
\* is missing or empty and fails on any other; then countFiles is awaited
CloneAnswer(p) ==
  /\ cpc[p] = "clone"
  /\ accesses' = Access(p)
  /\ \E ok \in BOOLEAN :
       IF ok /\ (disk[tempDir[p]] = None \/ ~disk[tempDir[p]].cloned)
       THEN /\ disk' = [disk EXCEPT ![tempDir[p]] =
                          [owner |-> IF @ = None THEN p ELSE @.owner, cloned |-> TRUE]]
            /\ extractedContent' = [extractedContent EXCEPT ![p] = addMetadata]
            /\ cpc' = [cpc EXCEPT ![p] = "countFiles"]
            /\ UNCHANGED <<caught, settled, entries, cidx, acc>>
       ELSE /\ Catch(p, "Failed to clone repository")
            /\ UNCHANGED <<disk, extractedContent, settled, entries, cidx, acc>>
  /\ UNCHANGED <<now, repository, tempDir, processed, removed, requestVars, apartVars>>

\* countFiles answers (line 149): it throws when the directory cannot be walked
CountFilesAnswer(p) ==
  /\ cpc[p] = "countFiles"
  /\ accesses' = Access(p)
  /\ \E ok \in BOOLEAN :
       IF ok /\ disk[tempDir[p]] # None
       THEN /\ cpc' = [cpc EXCEPT ![p] = "readdir"]
            /\ UNCHANGED caught
       ELSE Catch(p, "walk failed")
  /\ UNCHANGED <<now, repository, disk, tempDir, extractedContent, entries, cidx, acc,
                 processed, removed, settled, requestVars, apartVars>>

\* processDir's fs.readdir answers (lines 144-146, 154-169)
ReaddirAnswer(p) ==
  /\ cpc[p] = "readdir"
  /\ accesses' = Access(p)
  /\ LET listing == IF disk[tempDir[p]].cloned THEN repository ELSE <<>>
         totals == [content |-> <<>>, fileCount |-> 0, lineCount |-> 0]
     IN IF disk[tempDir[p]] = None
        THEN /\ Catch(p, "walk failed")
             /\ UNCHANGED <<entries, cidx, acc, processed>>
        ELSE IF listing = <<>>
        THEN /\ ProcessRepositoryReturns(p, totals)
             /\ UNCHANGED <<entries, cidx, acc, caught>>
        ELSE /\ entries' = [entries EXCEPT ![p] = listing]
             /\ cidx' = [cidx EXCEPT ![p] = 1]
             /\ acc' = [acc EXCEPT ![p] = totals]
             /\ cpc' = [cpc EXCEPT ![p] = "processFile"]
             /\ UNCHANGED <<processed, caught>>
  /\ UNCHANGED <<now, repository, disk, tempDir, extractedContent, removed, settled,
                 requestVars, apartVars>>

\* fs.stat and processFile answer for the file in hand (lines 164-175)
ProcessFileAnswer(p) ==
  /\ cpc[p] = "processFile"
  /\ accesses' = Access(p)
  /\ IF disk[tempDir[p]] = None \/ ~disk[tempDir[p]].cloned
     THEN /\ Catch(p, "walk failed")
          /\ UNCHANGED <<cidx, acc, processed>>
     ELSE LET totals == Accumulate(acc[p], processFile(entries[p][cidx[p]]))
          IN IF cidx[p] < Len(entries[p])
             THEN /\ acc' = [acc EXCEPT ![p] = totals]
                  /\ cidx' = [cidx EXCEPT ![p] = @ + 1]
                  /\ UNCHANGED <<cpc, processed, caught>>
             ELSE /\ ProcessRepositoryReturns(p, totals)
                  /\ UNCHANGED <<cidx, acc, caught>>
  /\ UNCHANGED <<now, repository, disk, tempDir, extractedContent, entries, removed,
                 settled, requestVars, apartVars>>

\* fs.remove takes the directory away, or fails and leaves it
Remove(p, ok) ==
  /\ removed' = [removed EXCEPT ![p] = Append(@, ok)]
  /\ accesses' = Access(p)
  /\ disk' = IF ok THEN [disk EXCEPT ![tempDir[p]] = None] ELSE disk

\* the fs.remove of line 217 answers: the result is returned, or the error of
\* fs.remove reaches the catch block (lines 217-227)
RemoveAnswer(p) ==
  /\ cpc[p] = "remove"
  /\ \E ok \in BOOLEAN :
       /\ Remove(p, ok)
       /\ IF ok
          THEN /\ settled' = [settled EXCEPT ![p] =
                    [kind |-> "returned",
                     value |-> [content |-> extractedContent[p] \o processed[p].content,
                                fileCount |-> processed[p].fileCount,
                                lineCount |-> processed[p].lineCount]]]
               /\ Leave(p)
               /\ UNCHANGED caught
          ELSE /\ Catch(p, "remove failed")
               /\ UNCHANGED <<settled, extractedContent, entries, cidx, acc>>
  /\ UNCHANGED <<now, repository, tempDir, processed, requestVars, apartVars>>

\* the fs.remove of the catch block answers: its error is logged, and the
\* error that was caught is thrown (lines 226-232)
CleanupAnswer(p) ==
  /\ cpc[p] = "cleanup"
  /\ \E ok \in BOOLEAN : Remove(p, ok)
  /\ settled' = [settled EXCEPT ![p] = [kind |-> "threw", error |-> caught[p]]]
  /\ Leave(p)
  /\ UNCHANGED <<now, repository, tempDir, processed, caught, requestVars, apartVars>>

\* the handler around extractRepository (lines 257-301): the result is sent
\* with status 200, a thrown error with status 400 and its message
cloneHandlerResponse(outcome) ==
  IF outcome.kind = "returned"
  THEN [status |-> 200, body |-> outcome.value]
  ELSE [status |-> 400, body |-> outcome.error]

InitClone == Idle /\ repository \in Repositories /\ argument = <<>> /\ token = ""

NextClone ==
  \/ Tick
  \/ \E p \in Invocations : extractRepository(p)
  \/ \E p \in Invocations : EnsureDirAnswer(p)
  \/ \E p \in Invocations : CloneAnswer(p)
  \/ \E p \in Invocations : CountFilesAnswer(p)
  \/ \E p \in Invocations : ReaddirAnswer(p)
  \/ \E p \in Invocations : ProcessFileAnswer(p)
  \/ \E p \in Invocations : RemoveAnswer(p)
  \/ \E p \in Invocations : CleanupAnswer(p)

SpecClone == InitClone /\ [][NextClone]_vars

(***************************************************************************)
(* isBinaryFile (lines 527-546) applied on its own to a file name.         *)
(***************************************************************************)
\* the file names: a dot, letters of the extension .so in either case, and a
\* letter of no denied extension
Filenames == SeqsUpTo({".", "s", "o", "S", "x"}, MaxPathLen)

InitBinary == Idle /\ repository = <<>> /\ argument \in Filenames /\ token = ""

\* the call returns: the function has no await and touches nothing else
IsBinaryFileReturns ==
  /\ returned = <<>>
  /\ returned' = <<isBinaryFile(argument)>>
  /\ UNCHANGED <<argument, requestVars, cloneVars, storeVars, outsideVars>>

NextBinary == IsBinaryFileReturns

SpecBinary == InitBinary /\ [][NextBinary]_vars

(***************************************************************************)
(* MemStorage.logRepositoryProcessing (storage.ts, lines 21-26) called by  *)
(* several requests.  The method has no await: its body runs from the call *)
(* to its return in one step, and the caller goes on when the promise it   *)
(* awaits is settled, after steps of other requests.                       *)
(***************************************************************************)
\* the entries the handlers write
StoreLogs ==
  {SuccessLog(RepoUrl, [fileCount |-> 1, lineCount |-> 2]), FailureLog(RepoUrl, "Not Found")}

\* caller c calls the method: the body runs and returns the stored object
StoreCall(c) ==
  /\ spc[c] = "idle"
  /\ Len(handed) < MaxCalls
  /\ \E log \in StoreLogs :
       /\ logRepositoryProcessing(log)
       /\ handed' = Append(handed, [id |-> currentId, log |-> log, by |-> c])
  /\ spc' = [spc EXCEPT ![c] = "awaiting"]
  /\ UNCHANGED <<pc, logCalls, result, req, response, branchVars, histVars, discVars, loopVars>>
  /\ UNCHANGED <<repeatVars, cloneVars, pureVars, outsideVars>>

\* the await of caller c ends
StoreResume(c) ==
  /\ spc[c] = "awaiting"
  /\ spc' = [spc EXCEPT ![c] = "idle"]
  /\ UNCHANGED <<handed, requestVars, cloneVars, pureVars, outsideVars>>

NextStore ==
  \E c \in Callers :
    \/ StoreCall(c)
    \/ StoreResume(c)

SpecStore == Init /\ [][NextStore]_vars

(***************************************************************************)
(* The client's form.  RepoForm's handleSubmit hands values.url and        *)
(* values.token to onSubmit (RepoForm.tsx, lines 35-37); onSubmit is       *)
(* Home's handleSubmit(url), which takes the url alone, and processMutation*)
(* posts the body { url } (utils/github.ts, lines 144-148 and 206-208).    *)
(* The handler reads req.body.url (routes.ts, line 25).                    *)
(***************************************************************************)
\* what the token field holds: nothing, or a personal access token
Tokens == {"", "ghp_token"}

InitForm == Idle /\ repository = <<>> /\ argument = <<>> /\ token \in Tokens

SpecForm == InitForm /\ [][Next]_vars

(***************************************************************************)
(* getRepositoryFileStructure up to its return, with the tree endpoint     *)
(* also answering with a listing of more files than the ceiling maxFiles.  *)
(***************************************************************************)
\* a tree of maxFiles + 1 blobs, none of them binary
LongTrees ==
  {[kind |-> "tree",
    tree |-> <<[type |-> "blob", path |-> README], [type |-> "blob", path |-> LICENSE],
               [type |-> "blob", path |-> PACKAGE]>>]}

LongTreeApiResponse ==
  /\ \E outcome \in TreeOutcomes \cup LongTrees : TreeApiResponseWith(outcome)
  /\ UNCHANGED repeatVars

NextStructure ==
  \/ Receive
  \/ Landing
  \/ Probe
  \/ LongTreeApiResponse
  \/ StructureLanding
  \/ StructureProbe
  \/ DirectoryResponse
  \/ CommonFileResponse

SpecStructure == Init /\ [][NextStructure]_vars

\* the discovery with every directory page request answered in the end: the
\* request carries a timeout of 15 s (line 281), so it returns or fails
\* (weak fairness of DirectoryResponse, which is enabled exactly while
\* pc = "fs_walk", written without ENABLED)
SpecWalk ==
  /\ Init
  /\ [][NextStructure]_vars
  /\ ([]<>(pc # "fs_walk") \/ []<><<DirectoryResponse>>_vars)

(***************************************************************************)
(* MemStorage.getRecentLogs (storage.ts, lines 28-32) on a store filled by *)
(* the handlers.  processedAt is new Date().toISOString() of the handler   *)
(* (routes.ts, lines 47 and 69), here the clock's reading: a later entry   *)
(* may carry an earlier time when the clock was set back.                  *)
(***************************************************************************)
\* a log entry as the handler writes it at time t
LogAt(t) ==
  [repositoryUrl |-> RepoUrl.text, fileCount |-> 1, lineCount |-> 2,
   processedAt |-> t, success |-> TRUE, errorMessage |-> "null"]

\* Array.prototype.sort with the comparator a - b, the oldest first
RECURSIVE sortAscending(_)
sortAscending(values) ==
  IF values = <<>> THEN <<>>
  ELSE LET last == values[Len(values)]
           sorted == sortAscending(SubSeq(values, 1, Len(values) - 1))
           k == Cardinality({i \in 1..Len(sorted) :
                               sorted[i].log.processedAt <= last.log.processedAt})
       IN SubSeq(sorted, 1, k) \o <<last>> \o SubSeq(sorted, k + 1, Len(sorted))

\* line 30: Array.prototype.sort, which is stable, with the comparator
\* b - a on the times: an entry goes behind those that are not older
RECURSIVE sort(_)
sort(values) ==
  IF values = <<>> THEN <<>>
  ELSE LET last == values[Len(values)]
           sorted == sort(SubSeq(values, 1, Len(values) - 1))
           k == Cardinality({i \in 1..Len(sorted) :
                               sorted[i].log.processedAt >= last.log.processedAt})
       IN SubSeq(sorted, 1, k) \o <<last>> \o SubSeq(sorted, k + 1, Len(sorted))

\* lines 28-32: the values of the map in insertion order, sorted, and the
\* first limit of them
getRecentLogs(map, limit) ==
  LET sorted == sort(map)
  IN SubSeq(sorted, 1, IF limit < Len(sorted) THEN limit ELSE Len(sorted))

\* a handler writes an entry
RecentStoreCall ==
  /\ returned = <<>>
  /\ Len(logs) < MaxCalls
  /\ \E t \in 0..MaxClock : logRepositoryProcessing(LogAt(t))
  /\ UNCHANGED <<pc, logCalls, result, req, response, branchVars, histVars, discVars, loopVars>>
  /\ UNCHANGED <<repeatVars, cloneVars, pureVars, storeVars, outsideVars>>

\* getRecentLogs is called with a limit and returns
GetRecentLogsReturns ==
  /\ returned = <<>>
  /\ \E limit \in 0..MaxCalls :
       /\ argument' = <<limit>>
       /\ returned' = <<getRecentLogs(logs, limit)>>
  /\ UNCHANGED <<requestVars, cloneVars, storeVars, outsideVars>>

NextRecent ==
  \/ RecentStoreCall
  \/ GetRecentLogsReturns

SpecRecent == Init /\ [][NextRecent]_vars

(***************************************************************************)
(* The caller closes the connection while the request runs.  The handler   *)
(* registers no listener on req or res (routes.ts, lines 25-79) and no     *)
(* request of the acquisition carries a signal (lines 12-19, 463-468): the *)
(* request goes on as if nothing had happened.                             *)
(***************************************************************************)
\* the connection is closed while a file request is awaited
CallerAborts ==
  /\ pc = "rc_fetch"
  /\ aborted = None
  /\ aborted' = [fetches |-> Len(fetchLog), logs |-> Len(logCalls)]
  /\ UNCHANGED <<token, homeVars, serverlessVars, requestVars, cloneVars, repeatVars, pureVars, storeVars>>

NextAbort ==
  \/ Next
  \/ CallerAborts

SpecAbort == Init /\ [][NextAbort]_vars

(***************************************************************************)
(* The Home page (utils/github.ts, lines 135-208).  The form is disabled   *)
(* while processMutation.isPending (lines 223-226) and at no other time.   *)
(* onSuccess starts one timer per step, 500 ms apart; a timer runs when    *)
(* its delay is over, whatever was submitted in between.                   *)
(***************************************************************************)
\* lines 198-204
updateStepStatus(steps, stepId, status) == [steps EXCEPT ![stepId] = status]

\* lines 206-208 and onMutate, lines 149-159: the form is submitted
HandleSubmit ==
  /\ ~mutation.isPending
  /\ mutation.submitted < MaxSubmissions
  /\ mutation' = [isPending |-> TRUE, submitted |-> mutation.submitted + 1]
  /\ home' = [steps |-> updateStepStatus(initialSteps, 1, "active"), error |-> "null",
              result |-> None, showProcessing |-> TRUE, showOutput |-> FALSE]
  /\ UNCHANGED <<timers, token, aborted, serverlessVars, requestVars, cloneVars, pureVars, storeVars>>

\* onSuccess, lines 160-178: the request of the submission was answered
MutationSucceeds ==
  /\ mutation.isPending
  /\ mutation' = [mutation EXCEPT !.isPending = FALSE]
  /\ timers' = timers \cup {[of |-> mutation.submitted, index |-> i] : i \in 1..4}
  /\ UNCHANGED <<home, token, aborted, serverlessVars, requestVars, cloneVars, pureVars, storeVars>>

\* onError, lines 179-195: the request of the submission failed
MutationFails ==
  /\ mutation.isPending
  /\ mutation' = [mutation EXCEPT !.isPending = FALSE]
  /\ LET active == {id \in 1..4 : home.steps[id] = "active"}
     IN home' = [home EXCEPT !.error = "An error occurred",
                             !.steps = IF active = {} THEN @
                                       ELSE updateStepStatus(@, CHOOSE id \in active :
                                                                 \A o \in active : id <= o,
                                                             "error")]
  /\ UNCHANGED <<timers, token, aborted, serverlessVars, requestVars, cloneVars, pureVars, storeVars>>

\* the callback of lines 164-176 runs: the timers of one onSuccess run in
\* the order of their delays, and behind the timers of an earlier onSuccess
\* whose delay is no longer
TimerFires ==
  \E timer \in timers :
    /\ \A other \in timers :
         other # timer => ~(other.of <= timer.of /\ other.index <= timer.index)
    /\ timers' = timers \ {timer}
    /\ home' = IF timer.index = 4
               THEN [home EXCEPT !.steps = updateStepStatus(@, timer.index, "complete"),
                                 !.result = [data |-> timer.of],
                                 !.showOutput = TRUE]
               ELSE [home EXCEPT !.steps = updateStepStatus(@, timer.index, "complete")]
    /\ UNCHANGED <<mutation, token, aborted, serverlessVars, requestVars, cloneVars, pureVars, storeVars>>

NextHome ==
  \/ HandleSubmit
  \/ MutationSucceeds
  \/ MutationFails
  \/ TimerFires

SpecHome == Init /\ [][NextHome]_vars

(***************************************************************************)
(* api/index.ts: the handler called for several requests.  registerRoutes  *)
(* (routes.ts, lines 22-94) has no await: the call of line 15 registers    *)
(* the routes at once, and init goes on after its await, in a job of its   *)
(* own.  Who calls handler, and from which job, is not in the repository:  *)
(* a call may come between the await of line 15 and line 16.               *)
(***************************************************************************)
\* lines 21-22 and 13-15: handler is called, and init runs to its await or
\* returns
HandlerCalled(c) ==
  /\ ipc[c] = "idle"
  /\ IF ~initialized
     THEN /\ registered' = registered + 1
          /\ ipc' = [ipc EXCEPT ![c] = "init_await"]
     ELSE /\ ipc' = [ipc EXCEPT ![c] = "handler_await"]
          /\ UNCHANGED registered
  /\ UNCHANGED <<initialized, passed>>
  /\ UNCHANGED <<token, aborted, homeVars, requestVars, cloneVars, pureVars, storeVars>>

\* lines 16-17: init goes on after its await and returns
InitResumes(c) ==
  /\ ipc[c] = "init_await"
  /\ initialized' = TRUE
  /\ ipc' = [ipc EXCEPT ![c] = "handler_await"]
  /\ UNCHANGED <<registered, passed>>
  /\ UNCHANGED <<token, aborted, homeVars, requestVars, cloneVars, pureVars, storeVars>>

\* lines 25-32: handler goes on after its await and passes the request to app
HandlerResumes(c) ==
  /\ ipc[c] = "handler_await"
  /\ passed' = passed \cup {[invocation |-> c, routes |-> registered]}
  /\ ipc' = [ipc EXCEPT ![c] = "app"]
  /\ UNCHANGED <<initialized, registered>>
  /\ UNCHANGED <<token, aborted, homeVars, requestVars, cloneVars, pureVars, storeVars>>

NextServerless ==
  \E c \in Callers :
    \/ HandlerCalled(c)
    \/ InitResumes(c)
    \/ HandlerResumes(c)

SpecServerless == Init /\ [][NextServerless]_vars

\* the request with every awaited call answered in the end: each network
\* call goes through axiosInstance, whose timeout is 30 s (line 18), or has a
\* timeout of its own (lines 108, 124, 281, 376, 423, 463), and the log
\* store answers at once
\* (a step that is not a stuttering step is a step of Next)
SpecLive ==
  /\ Init
  /\ [][Next]_vars
  /\ ([]<>(pc \in {"h_start", "h_done"}) \/ []<><<TRUE>>_vars)

(***************************************************************************)
(* The claims.                                                             *)
(***************************************************************************)
Range(s) == {s[i] : i \in 1..Len(s)}

OccurrencesIn(s, x) == Cardinality({i \in 1..Len(s) : s[i] = x})

\* the file content requests issued for path
RequestsFor(path) == Cardinality({i \in 1..Len(fetchLog) : fetchLog[i].path = path})

\* the request was valid and getRepositoryContent is over
AcquisitionOver == gitHubUrlSchema(req) /\ pc \in {"h_log", "h_errlog", "h_done"}

WellFormed(r) ==
  /\ DOMAIN r = {"content", "fileCount", "lineCount"}
  /\ DOMAIN r.content = 1..Len(r.content)
  /\ r.fileCount \in Nat
  /\ r.lineCount \in Nat

\* C1: getRepositoryContent never throws to the handler: whatever the
\* answers to the branch, discovery and file requests were, once it is over it
\* has returned a record with the fields content, fileCount and lineCount.
C1_NeverThrows == AcquisitionOver => WellFormed(result)

\* a result was returned after the landing page and the tree endpoint raised
\* errors and a file request failed
C1_Witness ==
  /\ pc = "h_log"
  /\ landing = "error"
  /\ strategyLog[1].raised
  /\ \E i \in 1..Len(fileResults) : fileResults[i].failed
  /\ WellFormed(result)

\* C2: a failed file request does not stop the loop: every path of the
\* discovered list that is not binary is requested exactly once and has exactly
\* one block, under its header, in the returned content.
C2_FilesIndependent ==
  result # None =>
    \A path \in Range(fileTree) :
      ~isBinaryFile(path) =>
        /\ RequestsFor(path) = 1
        /\ OccurrencesIn(result.content, Header(path)) = 1

\* two files were discovered, the request for the first failed and the second
\* was still fetched
C2_Witness ==
  /\ result # None
  /\ Len(fileResults) = 2
  /\ fileResults[1].failed
  /\ ~fileResults[2].failed
  /\ OccurrencesIn(result.content, Header(fileResults[2].path)) = 1

\* C3: getFileContent does not propagate a failed request: when the request
\* fails on the last branch it tries, it returns, without throwing, the block
\* "[File content could not be retrieved]" under the path header with a
\* lineCount of 1.
C3_FailureIsPlaceholder ==
  \A i \in 1..Len(fileResults) :
    fileResults[i].failed =>
      /\ ~fileResults[i].threw
      /\ fileResults[i].value.lineCount = 1
      /\ fileResults[i].value.content =
           <<Header(fileResults[i].path), NL,
             Tok("[File content could not be retrieved]"), NL, NL>>

\* a file request failed and getFileContent returned
C3_Witness ==
  \E i \in 1..Len(fileResults) : fileResults[i].failed /\ fileResults[i].value.lineCount = 1

strategyOrder == <<"tree", "scrape", "common">>

\* C4: the strategies are started in the order tree query, scraping, last
\* resort, each only after every earlier one ended with no file (an error of the
\* tree query included), and none after one that found a file.
C4_FallbackOrder ==
  /\ Len(strategyLog) <= Len(strategyOrder)
  /\ \A i \in 1..Len(strategyLog) :
       /\ strategyLog[i].name = strategyOrder[i]
       /\ i < Len(strategyLog) => strategyLog[i].found = 0

\* the tree query raised an error, scraping found nothing and the last resort
\* found a file
C4_Witness ==
  /\ Len(strategyLog) = 3
  /\ strategyLog[1].raised
  /\ strategyLog[2].found = 0
  /\ strategyLog[3].found > 0

\* C5: no discovery strategy is started twice in one request.
C5_AtMostOnce ==
  \A i, j \in 1..Len(strategyLog) :
    strategyLog[i].name = strategyLog[j].name => i = j

\* the request is answered after all three strategies ran
C5_Witness ==
  /\ pc = "h_done"
  /\ {strategyLog[i].name : i \in 1..Len(strategyLog)} = {"tree", "scrape", "common"}

\* C6: when the landing-page request fails (an error or a status other than
\* 200) and every probe made fails, determineDefaultBranch returns 'main', and
\* the acquisition goes on with it: discovery starts and files are fetched
\* from main.
C6_ResolverNeverFails ==
  ( /\ resolutions >= 1
    /\ landing \in {"error", "status"}
    /\ \A i \in 1..Len(probed) : ~probed[i].ok )
  => /\ defaultBranch = "main"
     /\ Len(strategyLog) >= 1
     /\ \A i \in 1..Len(fetchLog) : fetchLog[i].branch = "main"

\* the landing page answered with another status, the three probes failed and
\* a file was requested
C6_Witness ==
  /\ landing = "status"
  /\ Len(probed) = 3
  /\ \A i \in 1..Len(probed) : ~probed[i].ok
  /\ Len(fetchLog) >= 1
  /\ defaultBranch = "main"

\* C7: the branch is resolved once in an acquisition and every file content
\* request of the acquisition asks for the resolved branch.
C7_OneBranch ==
  /\ resolutions <= 1
  /\ \A i \in 1..Len(fetchLog) : fetchLog[i].branch = defaultBranch

\* C8: the handler calls storage.logRepositoryProcessing exactly once in an
\* invocation, whether it succeeds or fails, a throwing log write and a
\* request without url included.
C8_LoggedOnce == pc = "h_done" => Len(logCalls) = 1

\* C9: when getRepositoryContent has returned a result, the handler responds
\* 200 with that result, also when the log write throws.
C9_LogFailureKeepsResult ==
  (pc = "h_done" /\ result # None) => response = [status |-> 200, body |-> result]

\* every discovery strategy ran and found no file
AllStrategiesEmpty ==
  /\ Len(strategyLog) = Len(strategyOrder)
  /\ \A i \in 1..Len(strategyLog) : strategyLog[i].found = 0

\* C10: when every discovery strategy found nothing, the request is answered
\* with a well-formed result of the synthetic content with fileCount 0 or 1, and
\* exactly one log entry is recorded, with success = TRUE and the result's
\* counts.
C10_EmptyDiscovery ==
  (pc = "h_done" /\ AllStrategiesEmpty) =>
    /\ WellFormed(result)
    /\ result.fileCount \in {0, 1}
    /\ result.content = FallbackContent
    /\ response = [status |-> 200, body |-> result]
    /\ Len(logs) = 1
    /\ logs[1].log.success
    /\ logs[1].log.fileCount = result.fileCount
    /\ logs[1].log.lineCount = result.lineCount

\* the path's extension, from its last dot on, is in the denylist in lower case
HasDeniedExtension(path) ==
  \E k \in 1..Len(path) :
    /\ path[k] = "."
    /\ \A j \in (k + 1)..Len(path) : path[j] # "."
    /\ [j \in 1..(Len(path) - k + 1) |-> LowerChar(path[k + j - 1])] \in binaryExtensions

\* C11: a path whose extension is in the binary denylist is never requested by
\* getFileContent and never has a block in the returned content, whichever
\* strategy listed it.
C11_BinaryNeverFetched ==
  /\ \A i \in 1..Len(fetchLog) : ~HasDeniedExtension(fetchLog[i].path)
  /\ result # None =>
       \A k \in 1..Len(result.content) :
         result.content[k].t = "hdr" => ~HasDeniedExtension(result.content[k].p)

\* the tree endpoint listed a denylisted path next to text paths, and the
\* files of the list were fetched and returned
C11_Witness ==
  /\ pc = "h_log"
  /\ strategyLog[1].binary >= 1
  /\ Len(fetchLog) >= 1
  /\ result.fileCount >= 1

\* C12: when the tree endpoint lists one text path and one denylisted path, the
\* result has fileCount 1 and its content holds a content block for the text
\* path and a placeholder block for the denylisted path.
C12_BinaryPlaceholder ==
  ( /\ pc = "h_log"
    /\ Len(strategyLog) = 1
    /\ strategyLog[1].found = 1
    /\ strategyLog[1].binary = 1 )
  => /\ result.fileCount = 1
     /\ \E k \in 1..Len(result.content) : result.content[k] = Header(fileTree[1])
     /\ \E k \in 1..(Len(result.content) - 2) :
          /\ result.content[k].t = "hdr"
          /\ HasDeniedExtension(result.content[k].p)
          /\ result.content[k + 2] = Tok("[Binary file - content not displayed]")

\* the newline-delimited lines of a content: one more than its line breaks
NumLines(data) == 1 + Cardinality({k \in 1..Len(data) : data[k] = NL})

\* the first n lines of a content, n >= 1: what precedes its n-th line break
RECURSIVE FirstLines(_, _)
FirstLines(data, n) ==
  IF data = <<>> THEN <<>>
  ELSE IF Head(data) = NL
    THEN IF n = 1 THEN <<>> ELSE <<NL>> \o FirstLines(Tail(data), n - 1)
  ELSE <<Head(data)>> \o FirstLines(Tail(data), n)

\* C13: for every file request answered with text, the lineCount getFileContent
\* returns is the number of newline-delimited lines of the original content,
\* truncated or not.
C13_LineCountIsOriginal ==
  \A i \in 1..Len(fileResults) :
    fileResults[i].text => fileResults[i].value.lineCount = NumLines(fileResults[i].data)

\* a text of more lines than the cap was fetched, and its lineCount is the total
C13_Witness ==
  \E i \in 1..Len(fileResults) :
    /\ fileResults[i].text
    /\ NumLines(fileResults[i].data) > maxLines
    /\ fileResults[i].value.lineCount = maxLines + 1

\* C14: a content of more lines than the cap is emitted as its first cap lines
\* followed by one notice line with the lines shown and the total; a content of
\* at most cap lines is emitted whole, without notice.
C14_Truncation ==
  \A i \in 1..Len(fileResults) :
    fileResults[i].text =>
      LET data == fileResults[i].data
          head == <<Header(fileResults[i].path), NL>>
      IN IF NumLines(data) > maxLines
         THEN fileResults[i].value.content =
                head \o FirstLines(data, maxLines)
                     \o <<NL, NL, TruncNotice(maxLines, NumLines(data)), NL, NL>>
         ELSE fileResults[i].value.content = head \o data \o <<NL, NL>>

\* a text of more lines than the cap was emitted with the notice
C14_Witness ==
  \E i \in 1..Len(fileResults) :
    /\ fileResults[i].text
    /\ NumLines(fileResults[i].data) > maxLines
    /\ \E k \in 1..Len(fileResults[i].value.content) :
         fileResults[i].value.content[k].t = "truncated"

\* the file produced content for the result
Produced(r) == ~r.threw /\ r.value.content # <<>>

\* the sum of the line counts reported for the files that produced content
RECURSIVE SumLines(_)
SumLines(results) ==
  IF results = <<>> THEN 0
  ELSE (IF Produced(Head(results)) THEN Head(results).value.lineCount ELSE 0)
         + SumLines(Tail(results))

NumProduced(results) == Cardinality({i \in 1..Len(results) : Produced(results[i])})

FirstIndex(list, path) == CHOOSE i \in 1..Len(list) : list[i] = path /\ \A j \in 1..(i - 1) : list[j] # path

\* the places in the content of the blocks of path: its headers
HeaderPlaces(content, path) == {k \in 1..Len(content) : content[k] = Header(path)}

\* the blocks of the files that produced content, in the order they were processed
RECURSIVE Blocks(_)
Blocks(results) ==
  IF results = <<>> THEN <<>>
  ELSE (IF Produced(Head(results)) THEN Head(results).value.content ELSE <<>>)
         \o Blocks(Tail(results))

\* C16: the returned content is the concatenation of the files' blocks in
\* discovery order: of two discovered paths that both have a block, the one
\* discovered first has its block first.
C16_DiscoveryOrder ==
  (pc = "h_log" /\ NumProduced(fileResults) > 0) =>
    /\ result.content = Blocks(fileResults)
    /\ \A p, q \in Range(fileTree) :
         ( /\ FirstIndex(fileTree, p) < FirstIndex(fileTree, q)
           /\ HeaderPlaces(result.content, p) # {}
           /\ HeaderPlaces(result.content, q) # {} )
         => \A k \in HeaderPlaces(result.content, p), l \in HeaderPlaces(result.content, q) :
              k < l

\* two different paths were discovered and both have a block in the result
C16_Witness ==
  /\ pc = "h_log"
  /\ \E p, q \in Range(fileTree) :
       /\ FirstIndex(fileTree, p) < FirstIndex(fileTree, q)
       /\ HeaderPlaces(result.content, p) # {}
       /\ HeaderPlaces(result.content, q) # {}

\* the invocation is between its call and its return or throw
Running(p) == cpc[p] \notin {"idle", "done"}

\* fs.ensureDir made or found the directory of the invocation
Ensured(p) ==
  /\ tempDir[p] # NoDir
  /\ cpc[p] # "ensureDir"
  /\ ~(settled[p] # None /\ settled[p].kind = "threw" /\ settled[p].error = "ensureDir failed")

\* C17: once extractRepository has returned or thrown, whether cloning failed,
\* walking or reading failed or all went well, it has called fs.remove on the
\* directory it set up; and when its last fs.remove succeeded on a directory
\* no other invocation uses, the directory is gone.
C17_TempDirRemoved ==
  \A p \in Invocations :
    (settled[p] # None /\ Ensured(p)) =>
      /\ Len(removed[p]) >= 1
      /\ ( /\ removed[p][Len(removed[p])]
           /\ \A q \in Invocations \ {p} : tempDir[q] # tempDir[p] )
         => disk[tempDir[p]] = None

\* one invocation returned, another threw the clone error, a third case is the
\* walk error: here the first two, each in a directory of its own
C17_Witness ==
  \E p, q \in Invocations :
    /\ settled[p] # None /\ settled[p].kind = "returned"
    /\ settled[q] # None /\ settled[q].kind = "threw"
    /\ settled[q].error \in {"Failed to clone repository", "walk failed"}
    /\ tempDir[p] # tempDir[q]
    /\ removed[p] = <<TRUE>>
    /\ Len(removed[q]) = 1

\* C18: when cloning and processing succeeded and the fs.remove that follows
\* fails, extractRepository still returns the computed content, fileCount and
\* lineCount.
C18_RemovalFailureNotEscalated ==
  \A p \in Invocations :
    (settled[p] # None /\ processed[p] # None /\ removed[p] # <<>> /\ ~removed[p][1]) =>
      /\ settled[p].kind = "returned"
      /\ settled[p].value.fileCount = processed[p].fileCount
      /\ settled[p].value.lineCount = processed[p].lineCount

\* C19: no two invocations that run at the same time use the same temporary
\* directory, and a directory is read and removed only by the invocation that
\* created it.
C19_ExclusiveTempDir ==
  /\ \A p, q \in Invocations :
       (p # q /\ Running(p) /\ Running(q)) => tempDir[p] # tempDir[q]
  /\ \A a \in accesses : a.by = a.owner

\* C20: a second call of getRepositoryContent for a repository that answers
\* every request as it did during the first call returns the same fileCount
\* and the same lineCount as the first.
C20_SameCounts ==
  (run = 2 /\ pc = "h_log") =>
    /\ result.fileCount = first.fileCount
    /\ result.lineCount = first.lineCount

\* the second call has returned after a first call that went past the tree
\* endpoint and fetched a file of more than one line
C20_Witness ==
  /\ run = 2
  /\ pc = "h_log"
  /\ Len(strategyLog) >= 2
  /\ fileResults # <<>>
  /\ first.lineCount >= 2
  /\ first.content # FallbackContent

\* getRepositoryContent has been called for the request
AcquisitionStarted ==
  \/ pc \notin {"h_start", "h_errlog", "h_done"}
  \/ result # None
  \/ strategyLog # <<>>

\* C21: a request whose url is missing, is no url, is on another host or has
\* fewer than two path segments never reaches getRepositoryContent and is
\* answered with status 400; getRepositoryContent is only ever called with an
\* owner and a repository name that are not empty.
C21_RejectedBeforeAcquisition ==
  /\ ( /\ pc # "h_start"
       /\ \/ ~req.given
          \/ ~req.isUrl
          \/ req.hostname # "github.com"
          \/ Len(req.segments) < 2 )
     => /\ ~AcquisitionStarted
        /\ pc = "h_done" => response.status = 400
  /\ AcquisitionStarted => (owner(req) # "" /\ repo(req) # "")

\* a url on another host and a url with one segment (after the empty ones
\* were dropped) have been answered with 400
C21_Witness ==
  /\ pc = "h_done"
  /\ req \in {OtherHostUrl, DoubleSlashUrl}
  /\ response.status = 400
  /\ Len(logCalls) = 1

\* C22: in the scraping walk no directory page is requested a second time in
\* one discovery and none is requested at a depth above maxDepth, whatever
\* the pages link to.
C22_WalkBounded ==
  \A e \in walkLog : e.nth = 1 /\ e.depth <= maxDepth

\* a page request is in flight while a page fetched before still holds a link
\* to a directory that was requested already
C22_Witness ==
  /\ pc = "fs_walk"
  /\ Cardinality(walkLog) >= 2
  /\ \E i \in 1..Len(walkStack) :
       /\ walkStack[i].links # <<>>
       /\ Head(walkStack[i].links).isDir
       /\ Head(walkStack[i].links).path \in visitedDirectories

\* C23: isBinaryFile returns true exactly when the file name has a '.' and the
\* text from its last '.' on, in lower case, is an entry of the denylist; for a
\* name with no '.' or with another extension it returns false, and it always
\* returns.
C23_DenylistExactly ==
  /\ Len(returned) <= 1
  /\ returned # <<>> =>
       /\ returned[1] \in BOOLEAN
       /\ returned[1] <=> HasDeniedExtension(argument)
       /\ (\A k \in 1..Len(argument) : argument[k] # ".") => ~returned[1]

\* the call returned true for a name with two dots and an upper-case letter
C23_Witness ==
  /\ returned = <<TRUE>>
  /\ argument = <<".", ".", "S", "o">>

\* C24: after any sequence or interleaving of logRepositoryProcessing calls the
\* stored entries have distinct ids, there are as many of them as calls that
\* returned, and every object a call returned is still stored as it was
\* returned, in the order of the calls.
C24_AppendOnlyUniqueIds ==
  /\ \A i, j \in 1..Len(logs) : i # j => logs[i].id # logs[j].id
  /\ Len(logs) = Len(handed)
  /\ \A k \in 1..Len(handed) :
       /\ k <= Len(logs)
       /\ logs[k] = [id |-> handed[k].id, log |-> handed[k].log]

\* three calls were made, two of them by requests that both still await
C24_Witness ==
  /\ Len(handed) >= 3
  /\ spc[1] = "awaiting"
  /\ spc[2] = "awaiting"
  /\ handed[Len(handed)].by = 2
  /\ handed[Len(handed) - 1].by = 1

\* C25: a credential supplied with a request is a header value of the request
\* to the tree endpoint, unmodified, and it is in no log entry and not in the
\* response.
C25_CredentialForwarded ==
  token # "" =>
    /\ treeHeaders # {} => \E h \in treeHeaders : h.value = token
    /\ \A i \in 1..Len(logs) :
         /\ logs[i].log.repositoryUrl # token
         /\ logs[i].log.errorMessage # token

\* C26: when the landing page did not identify a branch (its request failed,
\* its status was not 200 or its html named none), the candidates were
\* probed in order up to the first success, and the branch resolved is that
\* candidate, or the first candidate when every probe failed.
C26_ProbesAfterLanding ==
  (defaultBranch # "" /\ landing \in {"error", "status", "none"}) =>
    /\ probed # <<>>
    /\ Len(probed) <= Len(contentCandidates)
    /\ \A i \in 1..Len(probed) : probed[i].branch = contentCandidates[i]
    /\ \A i \in 1..(Len(probed) - 1) : ~probed[i].ok
    /\ IF probed[Len(probed)].ok
       THEN defaultBranch = probed[Len(probed)].branch
       ELSE Len(probed) = Len(contentCandidates) /\ defaultBranch = contentCandidates[1]

\* C27: an acquisition works on one branch: the branch the tree endpoint is
\* asked for and the branch of the directory pages requested by the scraping
\* walk are the branch getRepositoryContent resolved, and every file content
\* request is for that branch.
C27_OneBranch ==
  defaultBranch # "" =>
    /\ treeBranch # "" => treeBranch = defaultBranch
    /\ walkLog # {} => scrapeBranch = defaultBranch
    /\ \A i \in 1..Len(fetchLog) : fetchLog[i].branch = defaultBranch

IsPrefix(a, b) == Len(a) <= Len(b) /\ SubSeq(b, 1, Len(a)) = a

\* the links the loops suspended in stack have still to process, each with
\* the depth a directory link would be processed at
PendingLinks(stack) ==
  UNION {{[link |-> stack[i].links[j], depth |-> stack[i].depth + 1] :
            j \in 1..Len(stack[i].links)} : i \in 1..Len(stack)}

\* the answer to a directory page request, a failure included, leaves the
\* walk as the claim says
WalkGoesOn ==
  LET pending == PendingLinks(walkStack)
      inWalk == pc' \in {"fs_walk", "fs_common"}
      found == IF inWalk THEN allFiles' ELSE fileTree'
      cut == ~inWalk /\ Len(fileTree') >= maxFiles
  IN /\ IF inWalk THEN IsPrefix(allFiles, allFiles')
                  ELSE IsPrefix(LimitFiles(allFiles), fileTree')
     /\ \A p \in pending :
          IF p.link.isDir
          THEN \/ p.depth > maxDepth
               \/ p.link.path \in visitedDirectories
               \/ pc' = "fs_walk" /\ walkReq'.path = p.link.path
               \/ pc' = "fs_walk" /\ p \in PendingLinks(walkStack')
          ELSE \/ isBinaryFile(p.link.path)
               \/ Includes(found, p.link.path)
               \/ pc' = "fs_walk" /\ p \in PendingLinks(walkStack')
               \/ cut

\* C28: the scraping walk tolerates a failed directory page.  Whatever the
\* answer to the page request in flight, a failure included, every file found
\* so far stays in the list in its place, every file link still to be
\* processed on the pages of the other directories is added to the list (unless
\* binary, or cut by the ceiling on return) or is still to be processed, and
\* every directory link still to be processed is requested next or is still to
\* be processed, unless it is too deep or was visited.
C28_WalkTolerant ==
  [][(pc = "fs_walk" /\ pc' \in {"fs_walk", "fs_common", "rc_fetch"}) => WalkGoesOn]_vars

\* a page request failed and the walk asks for the page of a sibling directory
C28_Witness ==
  /\ pc = "fs_walk"
  /\ \E e \in walkLog : e.failed /\ e.depth = walkReq.depth /\ e.path # walkReq.path

\* C29: the list getRepositoryFileStructure returns never has more paths than
\* the ceiling maxFiles, whichever strategy produced it.
C29_Ceiling == Len(fileTree) <= maxFiles

\* C30: the list the loop of getRepositoryContent goes over has no path
\* twice, even when the strategy listed a path twice: no path is requested
\* twice, no path is handed to getFileContent twice and no path has two
\* blocks in the result.
C30_NoDuplicates ==
  /\ \A i, j \in 1..Len(uniqueFiles) : i # j => uniqueFiles[i] # uniqueFiles[j]
  /\ \A i, j \in 1..Len(fetchLog) : i # j => fetchLog[i].path # fetchLog[j].path
  /\ \A i, j \in 1..Len(fileResults) : i # j => fileResults[i].path # fileResults[j].path
  /\ pc = "h_log" =>
       \A p \in Range(fileTree) : Cardinality(HeaderPlaces(result.content, p)) <= 1

\* the strategy listed one path twice; it was fetched once and has one block
C30_Witness ==
  /\ pc = "h_log"
  /\ Len(fileTree) = 2
  /\ fileTree[1] = fileTree[2]
  /\ Len(fetchLog) = 1
  /\ result.fileCount = 1
  /\ Cardinality(HeaderPlaces(result.content, fileTree[1])) = 1

\* C31: in the result of extractRepository every readable file of the cloned
\* tree that is not binary has its path header in the content, and fileCount
\* counts at least those files.
C31_EveryTextFileIncluded ==
  \A p \in Invocations :
    (settled[p] # None /\ settled[p].kind = "returned") =>
      LET text == {i \in 1..Len(repository) :
                     repository[i].readable /\ ~cloneIsBinaryFile(repository[i].name)}
      IN /\ \A i \in text :
              \E k \in 1..Len(settled[p].value.content) :
                settled[p].value.content[k] = Header(repository[i].name)
         /\ settled[p].value.fileCount >= Cardinality(text)

\* C32: a workspace error of the clone strategy (the clone fails, or the walk
\* of the directory fails) is followed by a cleanup attempt and is answered
\* with a result, not with an error response.
C32_WorkspaceErrorRecovered ==
  \A p \in Invocations :
    (settled[p] # None /\ cloneHandlerResponse(settled[p]).status = 400) =>
      cloneHandlerResponse(settled[p]).body \notin {"Failed to clone repository", "walk failed"}

\* the directory paths a page can link to, with the root
DirectoryPaths == {ROOT} \cup {l.path : l \in {k \in Links : k.isDir}}

\* an answer that does not end the walk has the page of a directory asked for
\* that was not visited before
NewDirectoryAsked ==
  (pc = "fs_walk" /\ pc' = "fs_walk") =>
    /\ visitedDirectories' \subseteq DirectoryPaths
    /\ visitedDirectories \subseteq visitedDirectories'
    /\ visitedDirectories' # visitedDirectories
    /\ walkReq'.depth <= maxDepth

\* C33: the scraping walk terminates, cyclic and self-referential links
\* included, when every page request returns or fails: each answer ends the
\* walk or has a directory asked for that was never visited, of the finitely
\* many there are, and a walk that was started is over in the end.
C33_WalkTerminates ==
  /\ [][NewDirectoryAsked]_vars
  /\ (pc = "fs_walk") ~> (pc # "fs_walk")

\* the page of a directory of depth 1 linked to the directory itself, and
\* the walk went on to its sibling
C33_Witness ==
  /\ pc = "fs_walk"
  /\ Cardinality(walkLog) = 3
  /\ \E e \in walkLog : e.back /\ e.depth = 1 /\ e.path # walkReq.path

\* C34: a file request that failed, a timeout included, gives the
\* placeholder of the file and no exception, and every request that was
\* received is answered in the end.
C34_EveryRequestReturns ==
  /\ [](\A i \in 1..Len(fileResults) :
          fileResults[i].failed =>
            /\ ~fileResults[i].threw
            /\ fileResults[i].value = UnavailableBlock(fileResults[i].path))
  /\ (pc # "h_start") ~> (pc = "h_done" /\ response # None)

\* a file request failed and getRepositoryContent returned its result
C34_Witness ==
  /\ pc = "h_log"
  /\ result # None
  /\ \E i \in 1..Len(fileResults) : fileResults[i].failed

\* C35: once the caller has closed the connection during the file requests,
\* no further file request is issued, getRepositoryContent returns no
\* result and no log entry is written.
C35_AbortStopsRequest ==
  aborted # None =>
    /\ Len(fetchLog) <= aborted.fetches
    /\ result = None
    /\ Len(logCalls) = aborted.logs

\* C36: when the deduplicated list of discovered paths is not empty, the
\* result getRepositoryContent returns does not hold the fallback message.
C36_FallbackOnlyWhenNothingFound ==
  (pc = "h_log" /\ result # None /\ uniqueFiles # <<>>) =>
    /\ result.content # FallbackContent
    /\ fileResults # <<>>
    /\ result.content = Blocks(fileResults)

\* two paths were discovered, the requests for both failed, and the result
\* was returned
C36_Witness ==
  /\ pc = "h_log"
  /\ result # None
  /\ Len(uniqueFiles) = 2
  /\ Len(fileResults) = 2
  /\ \A i \in 1..Len(fileResults) : fileResults[i].failed

\* C37: an entry of the log store has success=true, errorMessage null and
\* the counts of the result, and its request is answered with status 200 and
\* that result, or it has success=false, an error message and counts of 0.
C37_LogEntryForms ==
  \A i \in 1..Len(logs) :
    LET entry == logs[i].log
    IN \/ /\ entry.success
          /\ entry.errorMessage = "null"
          /\ result # None
          /\ entry.fileCount = result.fileCount
          /\ entry.lineCount = result.lineCount
          /\ response = [status |-> 200, body |-> result]
       \/ /\ ~entry.success
          /\ entry.errorMessage # "null"
          /\ entry.fileCount = 0
          /\ entry.lineCount = 0
          /\ response.status = 400

\* a success entry was written for a result of two files
C37_Witness ==
  /\ pc = "h_done"
  /\ Len(logs) = 1
  /\ logs[1].log.success
  /\ logs[1].log.fileCount = 2

\* C38: what getRecentLogs(limit) returns has at most limit entries, each
\* of them an entry of the store and none of them twice, from the most
\* recent processedAt to the least recent, with no entry of the store left
\* out that is more recent than a returned one, short of limit only when the
\* store has no more; the call leaves the store as it was.
C38_RecentLogs ==
  /\ [](returned # <<>> =>
          LET recent == returned[1]
              limit == argument[1]
          IN /\ Len(recent) <= limit
             /\ Len(recent) = limit \/ Len(recent) = Len(logs)
             /\ \A i \in 1..Len(recent) : \E k \in 1..Len(logs) : logs[k] = recent[i]
             /\ \A i, j \in 1..Len(recent) : i # j => recent[i].id # recent[j].id
             /\ \A i, j \in 1..Len(recent) :
                  i < j => recent[i].log.processedAt >= recent[j].log.processedAt
             /\ \A k \in 1..Len(logs) :
                  (\A i \in 1..Len(recent) : recent[i] # logs[k]) =>
                    \A i \in 1..Len(recent) :
                      recent[i].log.processedAt >= logs[k].log.processedAt)
  /\ [][returned' # returned => (logs' = logs /\ currentId' = currentId)]_vars

\* the two most recent of three entries were returned, the oldest of the
\* three written between them
C38_Witness ==
  /\ returned # <<>>
  /\ argument = <<2>>
  /\ Len(logs) = 3
  /\ logs[2].log.processedAt < logs[1].log.processedAt
  /\ logs[1].log.processedAt <= logs[3].log.processedAt
  /\ Len(returned[1]) = 2

\* C39: while a submission is pending, no step is complete and no result is
\* set or shown.
C39_NoStaleCompletion ==
  mutation.isPending =>
    /\ \A id \in 1..4 : home.steps[id] # "complete"
    /\ home.result = None
    /\ ~home.showOutput

\* C40: registerRoutes is called at most once on the app, and a request is
\* passed to the app only after a call of registerRoutes.
C40_RegisteredOnce ==
  /\ registered <= 1
  /\ \A request \in passed : request.routes >= 1


====
